---- MODULE Spec2Model ----
(***************************************************************************)
(* The AI content-generation pipeline of Padho Abhi: the usage governor    *)
(* (check_ai_usage / increment_ai_usage / update_token_usage), the         *)
(* generate-everything request in its inline and deferred modes, the task  *)
(* functions of core/tasks.py and the single-kind by_topic requests, for   *)
(* one user and one topic; the provider client down to the reply text, the *)
(* Note and Mindmap rows, doubt chat, topic tagging and the cost estimate. *)
(***************************************************************************)
EXTENDS Integers, Sequences, FiniteSets, TLC

\* ---------------------------------------------------------------- bounds
NSlots == 2          \* concurrent generate_content requests (Spec)
MaxGovReq == 4       \* requests the user makes one after another (SpecGov)
MaxDay == 1          \* day boundaries the clock may cross
MaxItems == 2        \* longest list the provider replies with
MaxGen == 3          \* single-kind generations in a row (SpecSingle)
MaxMeterReq == 1     \* requests the user makes one after another (SpecMeter)
MaxCapReq == 5       \* requests the user makes, NSlots at a time (SpecCap)
MaxQuotaReq == 2     \* requests the user makes one after another (SpecQuota)
MaxAuxReq == 4       \* requests the user makes one after another (SpecAux)
MaxPyq == 2          \* untagged PYQ questions of the subject (SpecAux)
MaxCostUpd == 3      \* usage updates before the profile is read (SpecCost)
MaxCountReq == 4     \* requests the user makes, NSlots at a time (SpecCount)
MaxText == 4         \* longest reply text, in tokens (SpecCall)

\* ------------------------------------------------------ program constants
DAILY_CAP == 3       \* views.py: daily_ai_usage_count >= 3

Slots == 1..NSlots

VARIABLES
    today,        \* timezone.now().date()
    profile,      \* the user's UserProfile row
    note,         \* Note row of the topic: 0 = none, else the generation that wrote it
    mindmap,      \* Mindmap row of the topic: 0 = none, else the generation that wrote it
    flashcards,   \* Flashcard rows of the topic: set of <<generation, index>>
    mcqs,         \* MCQQuestion rows of the topic: set of <<generation, index>>
    tasks,        \* AITask rows of (user, topic), per task_type, in creation order
    req,          \* the request threads (one per slot)
    job,          \* the django-q jobs running generate_content_task (one per slot)
    run,          \* per generation: did a provider call return an error, how it ended
    budget,       \* requests the scenario still allows
    hist,         \* today's shared-credential generations: succeeded, and recorded
                  \* by increment_ai_usage
    gen,          \* per artifact kind: the last single-kind generation (its number,
                  \* its item count, the metering of its provider call) and how
                  \* many in a row succeeded
    django_q,     \* can django_q.tasks be imported in the web process
    client,       \* the credential genai is configured with in the web process
                  \* (TRUE = the user's personal key, FALSE = settings.GEMINI_API_KEY)
    call,         \* one Generation Client call followed from the provider's
                  \* outcome to what the operation returns
    tables        \* Note and Mindmap rows of the topic held one by one (where
                  \* inserts are followed step by step), the subject's untagged
                  \* PYQQuestion rows, the user's ChatMessage rows

vars ==
    <<today, profile, note, mindmap, flashcards, mcqs, tasks, req, job, run, budget,
      hist, gen, django_q, client, call, tables>>
artifacts == <<note, mindmap, flashcards, mcqs>>

\* ------------------------------------------------------------ UserProfile
NewProfile(key) ==
    [api_key |-> key, daily_ai_usage_count |-> 0, last_usage_date |-> 0,
     total_input_tokens |-> 0, total_output_tokens |-> 0]

\* profile.get_api_key(): is there a decrypted personal credential
get_api_key(p) == p.api_key

\* ------------------------------------------------------------ AITask rows
TaskTypes == {"generate_all", "generate_notes", "generate_flashcards"}
NoResult == [flashcards |-> -1, mcqs |-> -1]
NewTask(st) ==
    [status |-> st, started_at |-> FALSE, completed_at |-> FALSE,
     error_message |-> <<>>, result |-> NoResult]

\* ------------------------------------------------- the provider's replies
UsageVals == {<<1, 2>>}

\* a text is the sequence of its words; a keyword occurs in it if it is one of
\* them (no word used here has another keyword inside it)
Contains(text, keywords) == \E i \in 1..Len(text) : text[i] \in keywords

\* GeminiService._error_dict(e) for an exception whose str(e) is text
error_dict(text) ==
    [type |-> "dict", error |-> TRUE, msg |-> text,
     error_code |-> IF Contains(text, {"quota", "rate limit", "too many requests", "429"})
                    THEN "quota_exceeded" ELSE "none"]

\* is_rate_limit_error(error_msg)
is_rate_limit_error(text) ==
    Contains(text, {"quota", "rate limit", "too many requests", "429", "quota_exceeded",
                    "quota exceeded", "rate-limited"})

\* the error of a provider call that failed for a reason other than quota
ErrorDict == error_dict(<<"timeout">>)
ItemLists == UNION {[1..n -> {"d", "x"}] : n \in 0..MaxItems}

\* generate_notes: an error dict, or a notes dict (valid = its fields are text)
NotesRepliesOf(U) ==
    {ErrorDict} \cup
    {[type |-> "dict", error |-> FALSE, valid |-> v, usage |-> u] :
        v \in BOOLEAN, u \in U}
NotesReplies == NotesRepliesOf(UsageVals)
\* generate_mindmap: an error dict, or a mindmap dict
MindmapRepliesOf(U) ==
    {ErrorDict} \cup
    {[type |-> "dict", error |-> FALSE, usage |-> u] : u \in U}
MindmapReplies == MindmapRepliesOf(UsageVals)
\* generate_flashcards / generate_mcqs: an error dict, or a dict holding the list
\* ("d" = an element that is an object, "x" = an element that is not)
ListRepliesOf(L, U) ==
    {ErrorDict} \cup
    {[type |-> "dict", error |-> FALSE, items |-> l, usage |-> u] : l \in L, u \in U}
ListReplies == ListRepliesOf(ItemLists, UsageVals)

PyList(l) == [type |-> "list", items |-> l]

\* ------------------------------------------- the provider's reply as text
\* a reply text is a sequence of tokens: "c" a character of commentary, "v"
\* a member of an object or a scalar element of an array, and the brackets
Tokens == {"c", "v", "{", "}", "[", "]"}
Texts == UNION {[1..n -> Tokens] : n \in 0..MaxText}

Closer(t) == IF t = "{" THEN "}" ELSE "]"
\* the last position of token t in text, 0 if there is none
LastOf(text, t) ==
    IF \E i \in 1..Len(text) : text[i] = t
    THEN CHOOSE i \in 1..Len(text) :
            text[i] = t /\ \A j \in (i + 1)..Len(text) : text[j] # t
    ELSE 0

\* re.search(r'\{[\s\S]*\}|\[[\s\S]*\]', text): the leftmost opening bracket
\* that has a closing one of its kind after it, up to the last such closing
\* bracket of the text (the empty text if there is no match)
MatchesAt(text, i) == text[i] \in {"{", "["} /\ LastOf(text, Closer(text[i])) > i
json_match(text) ==
    IF \E i \in 1..Len(text) : MatchesAt(text, i)
    THEN LET i == CHOOSE k \in 1..Len(text) :
                     MatchesAt(text, k) /\ \A j \in 1..(k - 1) : ~MatchesAt(text, j)
         IN  SubSeq(text, i, LastOf(text, Closer(text[i])))
    ELSE <<>>

\* does json.loads accept s from position i on, the brackets in stack being
\* open: one object or array, nothing after it, no commentary inside
RECURSIVE Decodes(_, _, _)
Decodes(s, i, stack) ==
    IF i > Len(s) THEN stack = <<>> /\ s # <<>>
    ELSE CASE s[i] \in {"{", "["} ->
                  (i = 1 \/ stack # <<>>) /\ Decodes(s, i + 1, <<s[i]>> \o stack)
           [] s[i] \in {"}", "]"} ->
                  /\ stack # <<>>
                  /\ Closer(Head(stack)) = s[i]
                  /\ Decodes(s, i + 1, Tail(stack))
           [] s[i] = "v" -> stack # <<>> /\ Decodes(s, i + 1, stack)
           [] OTHER -> FALSE

\* the elements of the array s from position i on, depth brackets being open
\* inside it: "d" an object, "x" anything else
RECURSIVE Elements(_, _, _)
Elements(s, i, depth) ==
    IF i >= Len(s) THEN <<>>
    ELSE IF s[i] \in {"{", "["}
    THEN (IF depth = 0 THEN <<IF s[i] = "{" THEN "d" ELSE "x">> ELSE <<>>)
         \o Elements(s, i + 1, depth + 1)
    ELSE IF s[i] \in {"}", "]"} THEN Elements(s, i + 1, depth - 1)
    ELSE (IF depth = 0 THEN <<"x">> ELSE <<>>) \o Elements(s, i + 1, depth)

NoneValue == [type |-> "none"]
\* json.loads(s) of a text it accepts
json_loads(s) ==
    IF s[1] = "{"
    THEN [type |-> "dict", empty |-> (Len(s) = 2), src |-> s]
    ELSE [type |-> "list", items |-> Elements(s, 2, 0), src |-> s]

\* GeminiService._clean_json_response(text)
clean_json_response(text) ==
    LET m == json_match(text)
    IN  IF m # <<>> /\ Decodes(m, 1, <<>>) THEN json_loads(m) ELSE NoneValue

\* `not result`
Falsy(v) ==
    \/ v.type = "none"
    \/ (v.type = "dict" /\ v.empty)
    \/ (v.type = "list" /\ v.items = <<>>)

\* what the provider does with a call: generate_content raises an exception
\* with a text, or the response has no text (response.text raises), or the
\* response carries a text, with or without usage_metadata
Outcomes ==
    {[kind |-> "raise", text |-> t] : t \in {<<"timeout">>, <<"quota">>}}
    \cup {[kind |-> "blocked"]}
    \cup {[kind |-> "text", text |-> t, metered |-> u] : t \in Texts, u \in BOOLEAN}

\* GeminiService._extract_usage(response)
extract_usage(o) == IF o.metered THEN <<1, 2>> ELSE <<0, 0>>

\* an exception escapes the operation
Escapes == [type |-> "raised"]
\* str(e) of the ValueError of response.text, of the TypeError of result['usage'] on a list
BlockedText == <<"blocked">>
TypeErrorText == <<"TypeError">>

\* the alternative reading: result['usage'] = ... outside the try block
generate_notes_Unguarded(o) ==
    IF o.kind = "raise" THEN error_dict(o.text)
    ELSE IF o.kind = "blocked" THEN error_dict(BlockedText)
    ELSE LET result == clean_json_response(o.text)
         IN  IF Falsy(result) \/ result.type = "dict"
             THEN [type |-> "dict", error |-> FALSE, valid |-> TRUE,
                   usage |-> extract_usage(o), fallback |-> Falsy(result)]
             ELSE Escapes

\* GeminiService.generate_notes, given the provider's outcome
generate_notes(o) ==
    IF o.kind = "raise" THEN error_dict(o.text)
    ELSE IF o.kind = "blocked" THEN error_dict(BlockedText)
    ELSE LET result == clean_json_response(o.text)
         IN  IF Falsy(result) \/ result.type = "dict"
             THEN [type |-> "dict", error |-> FALSE, valid |-> TRUE,
                   usage |-> extract_usage(o), fallback |-> Falsy(result)]
             ELSE error_dict(TypeErrorText)

\* GeminiService.generate_mindmap
generate_mindmap(o) ==
    IF o.kind = "raise" THEN error_dict(o.text)
    ELSE IF o.kind = "blocked" THEN error_dict(BlockedText)
    ELSE LET result == clean_json_response(o.text)
         IN  IF Falsy(result) \/ result.type = "dict"
             THEN [type |-> "dict", error |-> FALSE, usage |-> extract_usage(o),
                   fallback |-> Falsy(result)]
             ELSE error_dict(TypeErrorText)

\* GeminiService.generate_flashcards / generate_mcqs
generate_flashcards(o) ==
    IF o.kind = "raise" THEN error_dict(o.text)
    ELSE IF o.kind = "blocked" THEN error_dict(BlockedText)
    ELSE LET result == clean_json_response(o.text)
         IN  [type |-> "dict", error |-> FALSE,
              items |-> IF Falsy(result) \/ result.type # "list" THEN <<>> ELSE result.items,
              usage |-> extract_usage(o)]

\* GeminiService.tag_pyq_to_topic / answer_doubt
answer_text(o) ==
    IF o.kind = "raise" THEN error_dict(o.text)
    ELSE IF o.kind = "blocked" THEN error_dict(BlockedText)
    ELSE [type |-> "dict", error |-> FALSE, text |-> o.text, usage |-> extract_usage(o)]

Ops == {"generate_notes", "generate_mindmap", "generate_flashcards", "generate_mcqs",
        "tag_pyq_to_topic", "answer_doubt"}
\* gemini_service.<op>(...)
Operation(op, o) ==
    CASE op = "generate_notes" -> generate_notes(o)
      [] op = "generate_mindmap" -> generate_mindmap(o)
      [] op \in {"generate_flashcards", "generate_mcqs"} -> generate_flashcards(o)
      [] OTHER -> answer_text(o)

\* x.get(key, []) of generate_all_content
GetList(x) == IF x.error THEN PyList(<<>>) ELSE PyList(x.items)

UsageOf(x) == IF x.error THEN <<0, 0>> ELSE x.usage

\* the alternative reading: the aggregate leaves out the metering of the mcqs call
generate_all_content_SkipsMcqs(n, m, f, q) ==
    [notes |-> n, mindmap |-> m, flashcards |-> GetList(f), mcqs |-> GetList(q),
     usage |-> <<UsageOf(n)[1] + UsageOf(m)[1] + UsageOf(f)[1],
                 UsageOf(n)[2] + UsageOf(m)[2] + UsageOf(f)[2]>>]

\* GeminiService.generate_all_content, given the four replies
generate_all_content(n, m, f, q) ==
    [notes |-> n, mindmap |-> m, flashcards |-> GetList(f), mcqs |-> GetList(q),
     usage |-> <<UsageOf(n)[1] + UsageOf(m)[1] + UsageOf(f)[1] + UsageOf(q)[1],
                 UsageOf(n)[2] + UsageOf(m)[2] + UsageOf(f)[2] + UsageOf(q)[2]>>]

\* isinstance(x, dict) and 'error' in x
IsErrorDict(x) == x.type = "dict" /\ x.error

\* the errors list of generate_content_task / generate_content
ContentErrors(c) ==
    {k \in {"notes", "mindmap", "flashcards", "mcqs"} : IsErrorDict(c[k])}

\* generate_content: 429 if one of the errors is a rate-limit error, else 500
InlineErrorStatus(c) ==
    IF \E k \in ContentErrors(c) : is_rate_limit_error(c[k].msg) THEN 429 ELSE 500

\* the by_topic handlers, for the error of their one call
ErrorStatus(reply) == IF is_rate_limit_error(reply.msg) THEN 429 ELSE 500

\* '; '.join(errors)
RECURSIVE Join(_)
Join(parts) ==
    IF parts = <<>> THEN <<>>
    ELSE IF Len(parts) = 1 THEN parts[1]
    ELSE parts[1] \o <<";">> \o Join(Tail(parts))

\* generate_content_task: the error_message of a run whose content has errors
TaskErrorMessage(c) ==
    LET Part(k, label) == IF IsErrorDict(c[k]) THEN <<(<<label>> \o c[k].msg)>> ELSE <<>>
    IN  Join(Part("notes", "Notes:") \o Part("mindmap", "Mindmap:")
             \o Part("flashcards", "Flashcards:") \o Part("mcqs", "MCQs:"))

\* str(e) of an exception raised by a write
ExceptionText == <<"exception">>


\* ------------------------------------------------------------ persistence
\* index of the first list element that is not an object (Len + 1 if none):
\* fc.get / mcq.get raises AttributeError there
FirstBad(items) ==
    IF \E i \in 1..Len(items) : items[i] = "x"
    THEN CHOOSE i \in 1..Len(items) :
            items[i] = "x" /\ \A j \in 1..(i - 1) : items[j] = "d"
    ELSE Len(items) + 1

\* the rows the creation loop inserts before it ends or raises
Created(g, items) == {<<g, i>> : i \in 1..(FirstBad(items) - 1)}
Raises(items) == FirstBad(items) <= Len(items)
Rows(g, n) == {<<g, i>> : i \in 1..n}

DB(n, m, f, q) == [note |-> n, mindmap |-> m, flashcards |-> f, mcqs |-> q]

\* generate_content_task, "Save notes" .. "Save MCQs": the rows after the
\* writes, and whether a write raised (every write is its own commit)
PersistTask(db, g, c) ==
    IF ~c.notes.valid
    THEN [db |-> db, raised |-> TRUE]
    ELSE LET f == c.flashcards.items
             q == c.mcqs.items
             fc == IF f = <<>> THEN db.flashcards ELSE Created(g, f)
         IN  IF Raises(f)
             THEN [db |-> DB(g, g, fc, db.mcqs), raised |-> TRUE]
             ELSE [db |-> DB(g, g, fc, IF q = <<>> THEN db.mcqs ELSE Created(g, q)),
                   raised |-> Raises(q)]

\* TopicViewSet.generate_content, "Save notes" .. "Save MCQs" (rows are added,
\* nothing is deleted)
PersistInline(db, g, c) ==
    IF ~c.notes.valid
    THEN [db |-> db, raised |-> TRUE]
    ELSE LET f == c.flashcards.items
             q == c.mcqs.items
             fc == db.flashcards \cup Created(g, f)
         IN  IF Raises(f)
             THEN [db |-> DB(g, g, fc, db.mcqs), raised |-> TRUE]
             ELSE [db |-> DB(g, g, fc, db.mcqs \cup Created(g, q)),
                   raised |-> Raises(q)]

\* ----------------------------------------------------------- the governor
\* the alternative reading: the cap is tested on the count as loaded, before
\* the reset of a new day is applied and saved
check_ai_usage_CapBeforeReset(p, d) ==
    IF get_api_key(p)
    THEN [allowed |-> TRUE, api_key |-> TRUE, profile |-> p]
    ELSE [allowed |-> p.daily_ai_usage_count < DAILY_CAP, api_key |-> FALSE,
          profile |-> IF p.last_usage_date # d
                      THEN [p EXCEPT !.daily_ai_usage_count = 0, !.last_usage_date = d]
                      ELSE p]

\* check_ai_usage on a freshly loaded profile p on day d: the verdict, the
\* credential, and the instance afterwards (saved when the day changed)
check_ai_usage(p, d) ==
    IF get_api_key(p)
    THEN [allowed |-> TRUE, api_key |-> TRUE, profile |-> p]
    ELSE LET q == IF p.last_usage_date # d
                  THEN [p EXCEPT !.daily_ai_usage_count = 0, !.last_usage_date = d]
                  ELSE p
         IN  [allowed |-> q.daily_ai_usage_count < DAILY_CAP,
              api_key |-> FALSE, profile |-> q]

\* the alternative reading: increment_ai_usage deciding on a freshly loaded profile
IncrementWritesReloaded(cached, stored) == ~get_api_key(stored)

\* does increment_ai_usage write: `if not profile.get_api_key()` on the
\* instance user.profile holds, which check_ai_usage loaded
IncrementWrites(cached, stored) == ~get_api_key(cached)

\* the alternative reading: the increment is applied to the row as it is now
increment_ai_usage_OnStored(cached, stored) ==
    IF IncrementWrites(cached, stored)
    THEN LET p == [stored EXCEPT !.daily_ai_usage_count = @ + 1]
         IN  [cached |-> p, stored |-> p]
    ELSE [cached |-> cached, stored |-> stored]

\* increment_ai_usage: cached is request.user.profile (loaded by
\* check_ai_usage), stored the row; profile.save() writes every field
increment_ai_usage(cached, stored) ==
    IF IncrementWrites(cached, stored)
    THEN LET p == [cached EXCEPT !.daily_ai_usage_count = @ + 1]
         IN  [cached |-> p, stored |-> p]
    ELSE [cached |-> cached, stored |-> stored]

\* update_token_usage: save(update_fields=[the two totals])
update_token_usage(cached, stored, usage) ==
    LET p == [cached EXCEPT !.total_input_tokens = @ + usage[1],
                            !.total_output_tokens = @ + usage[2]]
    IN  [cached |-> p,
         stored |-> [stored EXCEPT !.total_input_tokens = p.total_input_tokens,
                                   !.total_output_tokens = p.total_output_tokens]]


\* --------------------------------------------------------- process states
NoCall == [pc |-> "none"]
\* mine: the topic belongs to a subject of the requesting user
NoTables == [note |-> {}, mindmap |-> {}, untagged |-> 0, chats |-> 0, mine |-> TRUE]
IdleReq ==
    [pc |-> "idle", api_key |-> FALSE, prof |-> NewProfile(FALSE), status |-> 0,
     day |-> 0, swapped |-> FALSE]
NoJob == [pc |-> "none", api_key |-> FALSE, day |-> 0, tk |-> NewTask("pending")]
\* runs: orchestrations (generate_all_content) made for the request of the
\* slot; sent: the credential its last provider call went out under, where
\* the call is followed step by step
\* errs: the error codes of the provider calls of the run that failed
NoRun == [erred |-> FALSE, errs |-> {}, ended |-> "none", runs |-> 0, sent |-> "none"]
\* metered: the summed metering of the requests that succeeded
NoHist == [succeeded |-> 0, recorded |-> 0, metered |-> <<0, 0>>]
Kinds == {"notes", "mindmap", "flashcards", "mcqs"}
NoGen ==
    [k \in Kinds |-> [g |-> 0, n |-> 0, streak |-> 0, meter |-> <<0, 0>>, tried |-> 0]]

\* the response; api_key stays the credential the governor selected, swapped
\* tells that the stored credential was another one when usage was recorded
Respond(r, code) ==
    [IdleReq EXCEPT !.pc = "done", !.status = code, !.api_key = req[r].api_key]
Recorded(r, code) ==
    [Respond(r, code) EXCEPT !.swapped = (req[r].api_key # get_api_key(profile))]

\* a generation on the shared credential, admitted today, succeeded today
Succeeded(shared) ==
    IF shared THEN [hist EXCEPT !.succeeded = @ + 1] ELSE hist
\* ... after increment_ai_usage wrote, or did not write, the counter today
SucceededRecorded(shared, wrote) ==
    [hist EXCEPT !.succeeded = @ + (IF shared THEN 1 ELSE 0),
                 !.recorded = @ + (IF wrote THEN 1 ELSE 0)]
\* the metering of the four calls of a run, added pair by pair
Metering(n, m, f, q) ==
    LET pairs == <<n, m, f, q>>
        Part(i, j) == IF pairs[i].error THEN 0 ELSE pairs[i].usage[j]
    IN  <<Part(1, 1) + Part(2, 1) + Part(3, 1) + Part(4, 1),
          Part(1, 2) + Part(2, 2) + Part(3, 2) + Part(4, 2)>>
\* ledger h after a request with metering u ended, successfully or not
Metered(h, ok, u) ==
    IF ok THEN [h EXCEPT !.metered = <<@[1] + u[1], @[2] + u[2]>>] ELSE h
\* the error codes of the calls that returned an error
ErrorCodes(replies) ==
    {replies[i].error_code : i \in {j \in 1..Len(replies) : replies[j].error}}
\* the run of slot r ended
Ran(r, errs, ended) ==
    [run EXCEPT ![r] = [@ EXCEPT !.erred = (errs # {}), !.errs = errs, !.ended = ended,
                                 !.runs = @ + 1]]

\* ------------------------------------- TopicViewSet.generate_content
\* lines 650-653: the governor admits or denies the request
Admit(r) ==
    /\ req[r].pc = "idle"
    /\ budget > 0
    /\ budget' = budget - 1
    /\ LET v == check_ai_usage(profile, today)
       IN  /\ profile' = v.profile
           /\ req' = [req EXCEPT ![r] =
                        IF v.allowed
                        THEN [IdleReq EXCEPT !.pc = "admitted", !.api_key = v.api_key,
                                             !.prof = v.profile, !.day = today]
                        ELSE Respond(r, 429)]
    /\ UNCHANGED <<today, django_q, call, tables, client, artifacts, tasks, job, run, hist, gen>>

\* run_task_async(generate_content_task, topic.id, user.id, api_key): with
\* django_q the job is queued and the request answers 202; when the import
\* fails the request thread calls the task function itself, then goes on
Enqueue(r) ==
    /\ job' = [job EXCEPT ![r] = [NoJob EXCEPT !.pc = "queued", !.api_key = req[r].api_key,
                                              !.day = req[r].day]]
    /\ req' = [req EXCEPT ![r] = IF django_q THEN Respond(r, 202)
                                             ELSE [req[r] EXCEPT !.pc = "fallback"]]

\* lines 661-685, deferred mode: AITask.objects.update_or_create(...,
\* defaults={'status': 'pending'}). A row that exists is locked and updated in
\* one transaction; with no row the lookup and the insert are two steps; with
\* several rows get() raises MultipleObjectsReturned
TaskUpsert(r) ==
    /\ req[r].pc = "admitted"
    /\ LET rows == tasks["generate_all"]
       IN  CASE Len(rows) = 0 ->
                    /\ req' = [req EXCEPT ![r].pc = "creating"]
                    /\ UNCHANGED <<tasks, job>>
             [] Len(rows) = 1 ->
                    /\ tasks' = [tasks EXCEPT !["generate_all"][1].status = "pending"]
                    /\ Enqueue(r)
             [] OTHER ->
                    /\ req' = [req EXCEPT ![r] = Respond(r, 500)]
                    /\ UNCHANGED <<tasks, job>>
    /\ UNCHANGED <<today, django_q, call, tables, client, profile, artifacts, run, budget, hist, gen>>

\* the insert of update_or_create, after a lookup that found no row
TaskCreate(r) ==
    /\ req[r].pc = "creating"
    /\ tasks' = [tasks EXCEPT !["generate_all"] = Append(@, NewTask("pending"))]
    /\ Enqueue(r)
    /\ UNCHANGED <<today, django_q, call, tables, client, profile, artifacts, run, budget, hist, gen>>

\* lines 709-766 for content c without errors: increment_ai_usage and
\* update_token_usage on the instance check_ai_usage loaded, then the writes;
\* the profile row and the topic's rows afterwards
InlineEnd(db, cached, stored, g, c) ==
    LET inc == increment_ai_usage(cached, stored)
        upd == update_token_usage(inc.cached, inc.stored, c.usage)
        w == PersistInline(db, g, c)
    IN  [db |-> w.db, profile |-> upd.stored, raised |-> w.raised]

\* lines 687-766, inline mode, with the replies n, m, f, q of the four calls
InlineRunWith(r, n, m, f, q) ==
    LET c == generate_all_content(n, m, f, q)
        erred == ErrorCodes(<<n, m, f, q>>)
        shared == ~req[r].api_key /\ req[r].day = today
    IN  IF ContentErrors(c) # {}
        THEN /\ req' = [req EXCEPT ![r] = Respond(r, InlineErrorStatus(c))]
             /\ run' = Ran(r, erred, "failed")
             /\ client' = req[r].api_key
             /\ UNCHANGED <<profile, artifacts, hist>>
        ELSE LET w == InlineEnd(DB(note, mindmap, flashcards, mcqs), req[r].prof, profile,
                                r, c)
             IN  /\ profile' = w.profile
                 /\ note' = w.db.note
                 /\ mindmap' = w.db.mindmap
                 /\ flashcards' = w.db.flashcards
                 /\ mcqs' = w.db.mcqs
                 /\ req' = [req EXCEPT ![r] = Recorded(r, IF w.raised THEN 500 ELSE 200)]
                 /\ run' = Ran(r, erred, IF w.raised THEN "failed" ELSE "completed")
                 /\ client' = req[r].api_key
                 /\ hist' = Metered(SucceededRecorded(shared /\ ~w.raised,
                                                      IncrementWrites(req[r].prof, profile)),
                                    ~w.raised, Metering(n, m, f, q))

\* the request is at "Synchronous generation": async was not asked for, or
\* run_task_async ran the task function in this thread and returned
InlineReady(r) ==
    \/ req[r].pc = "admitted"
    \/ (req[r].pc = "fallback" /\ job[r].pc = "returned")

InlineRun(r) ==
    /\ InlineReady(r)
    /\ \E n \in NotesReplies, m \in MindmapReplies, f \in ListReplies, q \in ListReplies :
          InlineRunWith(r, n, m, f, q)
    /\ UNCHANGED <<today, django_q, call, tables, tasks, job, budget, gen>>

\* ------------------------------------------- tasks.generate_content_task
\* lines 20-33: get_or_create the row, mark it processing, save
WorkerStart(r) ==
    /\ job[r].pc = "queued"
    /\ LET rows == tasks["generate_all"]
       IN  CASE Len(rows) = 0 ->
                    LET tk == [NewTask("processing") EXCEPT !.started_at = TRUE]
                    IN  /\ tasks' = [tasks EXCEPT !["generate_all"] = <<tk>>]
                        /\ job' = [job EXCEPT ![r].pc = "processing", ![r].tk = tk]
                        /\ UNCHANGED run
             [] Len(rows) = 1 ->
                    LET tk == [rows[1] EXCEPT !.status = "processing", !.started_at = TRUE]
                    IN  /\ tasks' = [tasks EXCEPT !["generate_all"][1] = tk]
                        /\ job' = [job EXCEPT ![r].pc = "processing", ![r].tk = tk]
                        /\ UNCHANGED run
             [] OTHER ->
                    \* MultipleObjectsReturned: the handler finds task unbound,
                    \* its own NameError is swallowed, no row is written
                    /\ job' = [job EXCEPT ![r].pc = "returned"]
                    /\ run' = [run EXCEPT ![r].ended = "failed"]
                    /\ UNCHANGED tasks
    /\ UNCHANGED <<today, django_q, call, tables, client, profile, artifacts, req, budget, hist, gen>>

\* task.save() of the instance the worker holds (the row looked up at start)
SaveTask(tk) == [tasks EXCEPT !["generate_all"][1] = tk]

Failed(tk, text) ==
    [tk EXCEPT !.status = "failed", !.error_message = text, !.completed_at = TRUE]

\* genai of the web process after the task function's calls: a django-q
\* worker is another process, the synchronous fallback runs in this one
WorkerClient(r) == IF django_q THEN client ELSE job[r].api_key

\* lines 58-117 for content c without errors: the writes, then the token
\* totals of a freshly loaded profile, saved with update_fields; an exception
\* in a write skips the rest
WorkerEnd(db, stored, g, c) ==
    LET w == PersistTask(db, g, c)
    IN  [db |-> w.db,
         profile |-> IF w.raised THEN stored
                     ELSE [stored EXCEPT !.total_input_tokens = @ + c.usage[1],
                                         !.total_output_tokens = @ + c.usage[2]],
         raised |-> w.raised]

\* lines 35-142 with the replies n, m, f, q of the four calls
WorkerRunWith(r, n, m, f, q) ==
    LET c == generate_all_content(n, m, f, q)
        erred == ErrorCodes(<<n, m, f, q>>)
        tk == job[r].tk
    IN  IF ContentErrors(c) # {}
        THEN /\ tasks' = SaveTask(Failed(tk, TaskErrorMessage(c)))
             /\ run' = Ran(r, erred, "failed")
             /\ UNCHANGED <<profile, artifacts, hist>>
        ELSE LET w == WorkerEnd(DB(note, mindmap, flashcards, mcqs), profile, r, c)
             IN  /\ note' = w.db.note
                 /\ mindmap' = w.db.mindmap
                 /\ flashcards' = w.db.flashcards
                 /\ mcqs' = w.db.mcqs
                 /\ profile' = w.profile
                 /\ IF w.raised
                    THEN /\ tasks' = SaveTask(Failed(tk, ExceptionText))
                         /\ run' = Ran(r, erred, "failed")
                         /\ UNCHANGED hist
                    ELSE /\ tasks' = SaveTask(
                               [tk EXCEPT !.status = "completed", !.completed_at = TRUE,
                                          !.result = [flashcards |-> Len(c.flashcards.items),
                                                      mcqs |-> Len(c.mcqs.items)]])
                         /\ run' = Ran(r, erred, "completed")
                         /\ hist' = Metered(Succeeded(~job[r].api_key /\ job[r].day = today),
                                            TRUE, Metering(n, m, f, q))

WorkerRun(r) ==
    /\ job[r].pc = "processing"
    /\ \E n \in NotesReplies, m \in MindmapReplies, f \in ListReplies, q \in ListReplies :
          WorkerRunWith(r, n, m, f, q)
    /\ job' = [job EXCEPT ![r].pc = "returned"]
    /\ client' = WorkerClient(r)
    /\ UNCHANGED <<today, django_q, call, tables, req, budget, gen>>


\* ------------------------------------------------------------ the topic
None == -1
\* the topic before the first request: empty, or filled by an earlier
\* generation (generation 0)
TopicInit(old) ==
    /\ note = (IF old THEN 0 ELSE None)
    /\ mindmap = (IF old THEN 0 ELSE None)
    /\ flashcards = (IF old THEN {<<0, 1>>} ELSE {})
    /\ mcqs = (IF old THEN {<<0, 1>>} ELSE {})

\* ---------------------------------------------------------------- Spec:
\* NSlots concurrent generate_content requests, inline or deferred, and the
\* workers running generate_content_task
Init ==
    /\ today = 0
    /\ \E k \in BOOLEAN : profile = NewProfile(k)
    /\ \E old \in BOOLEAN : TopicInit(old)
    /\ tasks = [t \in TaskTypes |-> <<>>]
    /\ req = [r \in Slots |-> IdleReq]
    /\ job = [r \in Slots |-> NoJob]
    /\ run = [r \in Slots |-> NoRun]
    /\ budget = NSlots
    /\ hist = NoHist
    /\ gen = NoGen
    /\ django_q = TRUE
    /\ client = FALSE
    /\ call = NoCall
    /\ tables = NoTables

Next ==
    \E r \in Slots :
        \/ Admit(r)
        \/ TaskUpsert(r)
        \/ TaskCreate(r)
        \/ InlineRun(r)
        \/ WorkerStart(r)
        \/ WorkerRun(r)

Spec == Init /\ [][Next]_vars


\* ------------------------------------------------------------- SpecGov:
\* one user issuing up to MaxGovReq generate_content requests one after
\* another, in either mode, while the day changes and the user sets or
\* removes the personal credential (AuthViewSet.update_api_key)
Tick ==
    /\ today < MaxDay
    /\ today' = today + 1
    /\ hist' = NoHist
    /\ UNCHANGED <<profile, artifacts, tasks, req, job, run, budget, gen, django_q, client,
                   call, tables>>

\* update_api_key: load the profile, set_api_key, profile.save()
UpdateApiKey ==
    /\ \E k \in BOOLEAN : profile' = [profile EXCEPT !.api_key = k]
    /\ profile' # profile
    /\ UNCHANGED <<today, django_q, call, tables, client, artifacts, tasks, req, job, run, budget, hist, gen>>

\* the user's next request starts once the last one and its job have ended
NextRequest(r) ==
    /\ req[r].pc = "done"
    /\ job[r].pc \in {"none", "returned"}
    /\ req' = [req EXCEPT ![r] = IdleReq]
    /\ job' = [job EXCEPT ![r] = NoJob]
    /\ run' = [run EXCEPT ![r] = NoRun]
    /\ UNCHANGED <<today, django_q, call, tables, client, profile, artifacts, tasks, budget, hist, gen>>

InitGov ==
    /\ today = 0
    /\ \E k \in BOOLEAN : profile = NewProfile(k)
    /\ TopicInit(FALSE)
    /\ tasks = [t \in TaskTypes |-> <<>>]
    /\ req = [r \in Slots |-> IdleReq]
    /\ job = [r \in Slots |-> NoJob]
    /\ run = [r \in Slots |-> NoRun]
    /\ budget = MaxGovReq
    /\ hist = NoHist
    /\ gen = NoGen
    /\ django_q = TRUE
    /\ client = FALSE
    /\ call = NoCall
    /\ tables = NoTables

\* in this scenario the provider either fails the notes call or answers all
\* four calls, the lists with one well-formed item
GovMindmap == CHOOSE m \in MindmapReplies : ~m.error
GovList == CHOOSE f \in ListReplies : ~f.error /\ f.items = <<"d">>

GovInlineRun ==
    /\ InlineReady(1)
    /\ \E n \in NotesReplies : InlineRunWith(1, n, GovMindmap, GovList, GovList)
    /\ UNCHANGED <<today, django_q, call, tables, tasks, job, budget, gen>>

GovWorkerRun ==
    /\ job[1].pc = "processing"
    /\ \E n \in NotesReplies : WorkerRunWith(1, n, GovMindmap, GovList, GovList)
    /\ job' = [job EXCEPT ![1].pc = "returned"]
    /\ client' = WorkerClient(1)
    /\ UNCHANGED <<today, django_q, call, tables, req, budget, gen>>

NextGov ==
    \/ Admit(1)
    \/ TaskUpsert(1)
    \/ TaskCreate(1)
    \/ GovInlineRun
    \/ WorkerStart(1)
    \/ GovWorkerRun
    \/ NextRequest(1)
    \/ Tick
    \/ UpdateApiKey

SpecGov == InitGov /\ [][NextGov]_vars

\* ---------------------------------------------------------- SpecClient:
\* NSlots concurrent NoteViewSet.by_topic requests of the user, served by
\* threads of one process, for a topic that has no Note; the provider call is
\* followed in its two steps, and the user may set or remove the personal
\* credential meanwhile
\* lines 813-822: topic.note raises DoesNotExist, then check_ai_usage
NotesCheck(r) ==
    /\ note = None
    /\ Admit(r)

\* GeminiService._configure_client(api_key): genai.configure(api_key=key) and
\* self.model = GenerativeModel(...) on the module's one gemini_service
ConfigureClient(r) ==
    /\ req[r].pc = "admitted"
    /\ client' = req[r].api_key
    /\ req' = [req EXCEPT ![r].pc = "configured"]
    /\ UNCHANGED <<today, django_q, call, tables, profile, artifacts, tasks, job, run, budget, hist, gen>>

\* self.model.generate_content(prompt) of generate_notes, under whatever
\* genai is configured with by now, and the rest of by_topic (lines 828-848)
NotesCall(r) ==
    /\ req[r].pc = "configured"
    /\ run' = [run EXCEPT ![r].sent = IF client THEN "personal" ELSE "shared"]
    /\ \E reply \in NotesReplies :
          IF reply.error
          THEN /\ req' = [req EXCEPT ![r] = Respond(r, ErrorStatus(reply))]
               /\ UNCHANGED <<profile, note>>
          ELSE LET inc == increment_ai_usage(req[r].prof, profile)
                   upd == update_token_usage(inc.cached, inc.stored, reply.usage)
                   created == reply.valid /\ note = None
               IN  /\ profile' = upd.stored
                   /\ note' = IF created THEN r ELSE note
                   /\ req' = [req EXCEPT ![r] = Recorded(r, IF created THEN 200 ELSE 500)]
    /\ UNCHANGED <<today, django_q, call, tables, client, mindmap, flashcards, mcqs, tasks, job, budget,
                   hist, gen>>

InitClient ==
    /\ today = 0
    /\ \E k \in BOOLEAN : profile = NewProfile(k)
    /\ TopicInit(FALSE)
    /\ tasks = [t \in TaskTypes |-> <<>>]
    /\ req = [r \in Slots |-> IdleReq]
    /\ job = [r \in Slots |-> NoJob]
    /\ run = [r \in Slots |-> NoRun]
    /\ budget = NSlots
    /\ hist = NoHist
    /\ gen = NoGen
    /\ django_q = TRUE
    /\ client = FALSE
    /\ call = NoCall
    /\ tables = NoTables

NextClient ==
    \/ \E r \in Slots :
          \/ NotesCheck(r)
          \/ ConfigureClient(r)
          \/ NotesCall(r)
    \/ UpdateApiKey

SpecClient == InitClient /\ [][NextClient]_vars

\* ------------------------------------------------------------- SpecCap:
\* a user without a personal credential issuing up to MaxCapReq inline
\* generate_content requests on one day, at most NSlots of them at a time
InitCap ==
    /\ today = 0
    /\ profile = NewProfile(FALSE)
    /\ TopicInit(FALSE)
    /\ tasks = [t \in TaskTypes |-> <<>>]
    /\ req = [r \in Slots |-> IdleReq]
    /\ job = [r \in Slots |-> NoJob]
    /\ run = [r \in Slots |-> NoRun]
    /\ budget = MaxCapReq
    /\ hist = NoHist
    /\ gen = NoGen
    /\ django_q = TRUE
    /\ client = FALSE
    /\ call = NoCall
    /\ tables = NoTables

CapInlineRun(r) ==
    /\ InlineReady(r)
    /\ \E n \in NotesReplies : InlineRunWith(r, n, GovMindmap, GovList, GovList)
    /\ UNCHANGED <<today, django_q, call, tables, tasks, job, budget, gen>>

NextCap ==
    \E r \in Slots :
        \/ Admit(r)
        \/ CapInlineRun(r)
        \/ NextRequest(r)

SpecCap == InitCap /\ [][NextCap]_vars

\* ----------------------------------------------------------- SpecCount:
\* up to MaxCountReq requests like those of SpecCap while the day changes and
\* the user sets or removes the personal credential
InitCount ==
    /\ today = 0
    /\ profile = NewProfile(FALSE)
    /\ TopicInit(FALSE)
    /\ tasks = [t \in TaskTypes |-> <<>>]
    /\ req = [r \in Slots |-> IdleReq]
    /\ job = [r \in Slots |-> NoJob]
    /\ run = [r \in Slots |-> NoRun]
    /\ budget = MaxCountReq
    /\ hist = NoHist
    /\ gen = NoGen
    /\ django_q = TRUE
    /\ client = FALSE
    /\ call = NoCall
    /\ tables = NoTables

NextCount ==
    \/ \E r \in Slots :
          \/ Admit(r)
          \/ CapInlineRun(r)
          \/ NextRequest(r)
    \/ Tick
    \/ UpdateApiKey

SpecCount == InitCount /\ [][NextCount]_vars

\* ----------------------------------------------------------- SpecMeter:
\* one user's generate_content requests, one after another, in either mode,
\* the provider metering its replies with varying token counts
MeterVals == {<<0, 0>>, <<5, 5>>, <<10, 20>>, <<15, 10>>}
MeterLists == ListRepliesOf({<<"d">>}, MeterVals)
\* what the ledger holds before the first request
PriorTotals == {0, 7}

InitMeter ==
    /\ today = 0
    /\ \E k \in BOOLEAN, t \in PriorTotals :
          profile = [NewProfile(k) EXCEPT !.total_input_tokens = t,
                                          !.total_output_tokens = t]
    /\ TopicInit(FALSE)
    /\ tasks = [t \in TaskTypes |-> <<>>]
    /\ req = [r \in Slots |-> IdleReq]
    /\ job = [r \in Slots |-> NoJob]
    /\ run = [r \in Slots |-> NoRun]
    /\ budget = MaxMeterReq
    /\ hist = NoHist
    /\ gen = NoGen
    /\ django_q = TRUE
    /\ client = FALSE
    /\ call = NoCall
    /\ tables = NoTables

MeterInlineRun ==
    /\ InlineReady(1)
    /\ \E n \in NotesRepliesOf(MeterVals), m \in MindmapRepliesOf(MeterVals),
          f \in MeterLists, q \in MeterLists :
          InlineRunWith(1, n, m, f, q)
    /\ UNCHANGED <<today, django_q, call, tables, tasks, job, budget, gen>>

MeterWorkerRun ==
    /\ job[1].pc = "processing"
    /\ \E n \in NotesRepliesOf(MeterVals), m \in MindmapRepliesOf(MeterVals),
          f \in MeterLists, q \in MeterLists :
          WorkerRunWith(1, n, m, f, q)
    /\ job' = [job EXCEPT ![1].pc = "returned"]
    /\ client' = WorkerClient(1)
    /\ UNCHANGED <<today, django_q, call, tables, req, budget, gen>>

NextMeter ==
    \/ Admit(1)
    \/ TaskUpsert(1)
    \/ TaskCreate(1)
    \/ MeterInlineRun
    \/ WorkerStart(1)
    \/ MeterWorkerRun
    \/ NextRequest(1)

SpecMeter == InitMeter /\ [][NextMeter]_vars

\* -------------------------------------------------------- SpecFallback:
\* ENABLE_ASYNC_TASKS is set but django_q cannot be imported: the user's
\* generate_content request, with or without async
InitFallback ==
    /\ today = 0
    /\ \E k \in BOOLEAN : profile = NewProfile(k)
    /\ \E old \in BOOLEAN : TopicInit(old)
    /\ tasks = [t \in TaskTypes |-> <<>>]
    /\ req = [r \in Slots |-> IdleReq]
    /\ job = [r \in Slots |-> NoJob]
    /\ run = [r \in Slots |-> NoRun]
    /\ budget = 1
    /\ hist = NoHist
    /\ gen = NoGen
    /\ django_q = FALSE
    /\ client = FALSE
    /\ call = NoCall
    /\ tables = NoTables

NextFallback ==
    \/ Admit(1)
    \/ TaskUpsert(1)
    \/ TaskCreate(1)
    \/ WorkerStart(1)
    \/ WorkerRun(1)
    \/ InlineRun(1)

SpecFallback == InitFallback /\ [][NextFallback]_vars

\* ---------------------------------------------------------- SpecSingle:
\* up to MaxGen single-kind generations one after another: the by_topic
\* requests of the four kinds and the two single-kind task functions
ThisGen == MaxGen - budget + 1

\* the metering a reply carries (none when the call returned an error)
MeterOf(reply) == IF reply.error THEN <<0, 0>> ELSE reply.usage

\* the outcome of one generation of kind k in the ledger gen (tried: the last
\* generation of the kind that was asked for, successful or not); u is the
\* metering of the provider call it made (<<0, 0>> when it made none)
Outcome(k, ok, n, u) ==
    [gen EXCEPT ![k] = IF ok
                       THEN [g |-> ThisGen, n |-> n,
                             streak |-> IF @.streak = 0 THEN 1 ELSE 2, meter |-> u,
                             tried |-> ThisGen]
                       ELSE [@ EXCEPT !.streak = 0, !.meter = u, !.tried = ThisGen]]

\* NoteViewSet.by_topic / MindmapViewSet.by_topic for a topic whose row is cur
\* (None if missing), when the handler generates: the row afterwards, the
\* profile afterwards, the response
SingletonByTopic(cur, valid, reply) ==
    LET v == check_ai_usage(profile, today)
    IN  IF ~v.allowed
        THEN [val |-> None, profile |-> v.profile, status |-> 429, client |-> client,
              meter |-> <<0, 0>>]
        ELSE IF reply.error
        THEN [val |-> None, profile |-> v.profile, status |-> ErrorStatus(reply),
              client |-> v.api_key,
              meter |-> <<0, 0>>]
        ELSE LET inc == increment_ai_usage(v.profile, v.profile)
                 upd == update_token_usage(inc.cached, inc.stored, reply.usage)
             IN  [val |-> IF valid THEN ThisGen ELSE None, profile |-> upd.stored,
                  status |-> IF valid THEN 200 ELSE 500, client |-> v.api_key,
                  meter |-> reply.usage]

\* if refresh: flashcards.delete() / mcqs.delete()
ClearOnRefresh(rows, refresh) == IF refresh THEN {} ELSE rows

\* FlashcardViewSet.by_topic / MCQViewSet.by_topic, when the handler generates
ListByTopic(rows, refresh, reply) ==
    LET v == check_ai_usage(profile, today)
        rows1 == ClearOnRefresh(rows, refresh)
    IN  IF ~v.allowed
        THEN [val |-> rows1, profile |-> v.profile, status |-> 429, client |-> client,
              meter |-> <<0, 0>>]
        ELSE IF reply.error
        THEN [val |-> rows1, profile |-> v.profile, status |-> ErrorStatus(reply),
              client |-> v.api_key,
              meter |-> <<0, 0>>]
        ELSE LET inc == increment_ai_usage(v.profile, v.profile)
                 upd == update_token_usage(inc.cached, inc.stored, reply.usage)
             IN  [val |-> rows1 \cup Created(ThisGen, reply.items),
                  profile |-> upd.stored,
                  status |-> IF Raises(reply.items) THEN 500 ELSE 200,
                  client |-> v.api_key, meter |-> reply.usage]

NotesByTopic ==
    /\ budget > 0
    /\ \E refresh \in BOOLEAN, reply \in NotesReplies :
          /\ note = None \/ refresh
          /\ LET o == SingletonByTopic(note, ~reply.error /\ reply.valid, reply)
             IN  /\ note' = o.val
                 /\ profile' = o.profile
                 /\ client' = o.client
                 /\ gen' = Outcome("notes", o.status = 200, 0, o.meter)
    /\ budget' = budget - 1
    /\ UNCHANGED <<today, django_q, call, tables, mindmap, flashcards, mcqs, tasks, req, job, run, hist>>

MindmapByTopic ==
    /\ budget > 0
    /\ \E refresh \in BOOLEAN, reply \in MindmapReplies :
          /\ mindmap = None \/ refresh
          /\ LET o == SingletonByTopic(mindmap, TRUE, reply)
             IN  /\ mindmap' = o.val
                 /\ profile' = o.profile
                 /\ client' = o.client
                 /\ gen' = Outcome("mindmap", o.status = 200, 0, o.meter)
    /\ budget' = budget - 1
    /\ UNCHANGED <<today, django_q, call, tables, note, flashcards, mcqs, tasks, req, job, run, hist>>

FlashcardsByTopic ==
    /\ budget > 0
    /\ \E refresh \in BOOLEAN, reply \in ListReplies :
          /\ flashcards = {} \/ refresh
          /\ LET o == ListByTopic(flashcards, refresh, reply)
             IN  /\ flashcards' = o.val
                 /\ profile' = o.profile
                 /\ client' = o.client
                 /\ gen' = Outcome("flashcards", o.status = 200,
                                   IF reply.error THEN 0 ELSE Len(reply.items), o.meter)
    /\ budget' = budget - 1
    /\ UNCHANGED <<today, django_q, call, tables, note, mindmap, mcqs, tasks, req, job, run, hist>>

McqsByTopic ==
    /\ budget > 0
    /\ \E refresh \in BOOLEAN, reply \in ListReplies :
          /\ mcqs = {} \/ refresh
          /\ LET o == ListByTopic(mcqs, refresh, reply)
             IN  /\ mcqs' = o.val
                 /\ profile' = o.profile
                 /\ client' = o.client
                 /\ gen' = Outcome("mcqs", o.status = 200,
                                   IF reply.error THEN 0 ELSE Len(reply.items), o.meter)
    /\ budget' = budget - 1
    /\ UNCHANGED <<today, django_q, call, tables, note, mindmap, flashcards, tasks, req, job, run, hist>>

\* AITask.objects.update_or_create(..., defaults={'status': 'processing',
\* 'started_at': now}) of the single-kind task functions
StartedTask(rows) ==
    IF rows = <<>>
    THEN [NewTask("processing") EXCEPT !.started_at = TRUE]
    ELSE [rows[1] EXCEPT !.status = "processing", !.started_at = TRUE]

Completed(tk) == [tk EXCEPT !.status = "completed", !.completed_at = TRUE]

\* tasks.generate_notes_task, generate_notes having returned reply
NotesTaskWith(reply) ==
    LET tk == StartedTask(tasks["generate_notes"])
    IN  IF reply.error
        THEN /\ tasks' = [tasks EXCEPT !["generate_notes"] = <<Failed(tk, reply.msg)>>]
             /\ gen' = Outcome("notes", FALSE, 0, MeterOf(reply))
             /\ UNCHANGED note
        ELSE IF ~reply.valid
        THEN \* Note.objects.update_or_create raises; the handler returns
             /\ tasks' = [tasks EXCEPT !["generate_notes"] = <<tk>>]
             /\ gen' = Outcome("notes", FALSE, 0, MeterOf(reply))
             /\ UNCHANGED note
        ELSE /\ note' = ThisGen
             /\ tasks' = [tasks EXCEPT !["generate_notes"] = <<Completed(tk)>>]
             /\ gen' = Outcome("notes", TRUE, 0, MeterOf(reply))

GenerateNotesTask ==
    /\ budget > 0
    /\ \E reply \in NotesReplies : NotesTaskWith(reply)
    /\ budget' = budget - 1
    /\ UNCHANGED <<today, django_q, call, tables, client, profile, mindmap, flashcards, mcqs, req, job, run, hist>>

\* the alternative reading: generate_flashcards_task without the delete
TaskClearSkipped(rows) == rows

\* topic.flashcards.all().delete() of generate_flashcards_task
TaskClear(rows) == {}

\* tasks.generate_flashcards_task, generate_flashcards having returned reply
FlashcardsTaskWith(reply) ==
    LET tk == StartedTask(tasks["generate_flashcards"])
    IN  IF reply.error
        THEN /\ tasks' = [tasks EXCEPT !["generate_flashcards"] = <<Failed(tk, reply.msg)>>]
             /\ gen' = Outcome("flashcards", FALSE, 0, MeterOf(reply))
             /\ UNCHANGED flashcards
        ELSE /\ flashcards' = TaskClear(flashcards) \cup Created(ThisGen, reply.items)
             /\ IF Raises(reply.items)
                THEN \* fc.get raises; the handler returns
                     /\ tasks' = [tasks EXCEPT !["generate_flashcards"] = <<tk>>]
                     /\ gen' = Outcome("flashcards", FALSE, 0, MeterOf(reply))
                ELSE /\ tasks' = [tasks EXCEPT !["generate_flashcards"] =
                                                  <<Completed(tk)>>]
                     /\ gen' = Outcome("flashcards", TRUE, Len(reply.items), MeterOf(reply))

GenerateFlashcardsTask ==
    /\ budget > 0
    /\ \E reply \in ListReplies : FlashcardsTaskWith(reply)
    /\ budget' = budget - 1
    /\ UNCHANGED <<today, django_q, call, tables, client, profile, note, mindmap, mcqs, req, job, run, hist>>

InitSingle ==
    /\ today = 0
    /\ \E k \in BOOLEAN : profile = NewProfile(k)
    /\ \E old \in BOOLEAN : TopicInit(old)
    /\ tasks = [t \in TaskTypes |-> <<>>]
    /\ req = [r \in Slots |-> IdleReq]
    /\ job = [r \in Slots |-> NoJob]
    /\ run = [r \in Slots |-> NoRun]
    /\ budget = MaxGen
    /\ hist = NoHist
    /\ gen = NoGen
    /\ django_q = TRUE
    /\ client = FALSE
    /\ call = NoCall
    /\ tables = NoTables

NextSingle ==
    \/ NotesByTopic
    \/ MindmapByTopic
    \/ FlashcardsByTopic
    \/ McqsByTopic
    \/ GenerateNotesTask
    \/ GenerateFlashcardsTask

SpecSingle == InitSingle /\ [][NextSingle]_vars

\* ----------------------------------------------------------- SpecQuota:
\* one user's inline requests, one after another: generate-everything and
\* the by_topic requests of the four kinds, the provider failing calls with
\* quota errors and with other errors
ErrorTexts == {<<"timeout">>, <<"quota">>, <<"rate-limited">>}
QuotaErrors == {error_dict(t) : t \in ErrorTexts}
QuotaNotesReplies == NotesReplies \cup QuotaErrors
QuotaMindmapReplies == MindmapReplies \cup QuotaErrors
QuotaListReplies == ListRepliesOf({<<"d">>}, UsageVals) \cup QuotaErrors

QuotaInlineRun ==
    /\ InlineReady(1)
    /\ \E n \in QuotaNotesReplies, m \in QuotaMindmapReplies,
          f \in QuotaListReplies, q \in QuotaListReplies :
          InlineRunWith(1, n, m, f, q)
    /\ UNCHANGED <<today, django_q, call, tables, tasks, job, budget, gen>>

\* a by_topic request answered with outcome o after its call returned reply
\* (no call was made when the governor denied the request)
ByTopicAnswer(o, reply) ==
    /\ req[1].pc = "idle"
    /\ budget > 0
    /\ budget' = budget - 1
    /\ profile' = o.profile
    /\ client' = o.client
    /\ req' = [req EXCEPT ![1] = [IdleReq EXCEPT !.pc = "done", !.status = o.status,
                                                 !.api_key = get_api_key(profile)]]
    /\ run' = IF check_ai_usage(profile, today).allowed
              THEN Ran(1, ErrorCodes(<<reply>>),
                       IF o.status = 200 THEN "completed" ELSE "failed")
              ELSE run

QuotaNotes ==
    /\ \E refresh \in BOOLEAN, reply \in QuotaNotesReplies :
          /\ note = None \/ refresh
          /\ LET o == SingletonByTopic(note, ~reply.error /\ reply.valid, reply)
             IN  note' = o.val /\ ByTopicAnswer(o, reply)
    /\ UNCHANGED <<today, django_q, call, tables, mindmap, flashcards, mcqs, tasks, job, hist, gen>>

QuotaMindmap ==
    /\ \E refresh \in BOOLEAN, reply \in QuotaMindmapReplies :
          /\ mindmap = None \/ refresh
          /\ LET o == SingletonByTopic(mindmap, TRUE, reply)
             IN  mindmap' = o.val /\ ByTopicAnswer(o, reply)
    /\ UNCHANGED <<today, django_q, call, tables, note, flashcards, mcqs, tasks, job, hist, gen>>

QuotaFlashcards ==
    /\ \E refresh \in BOOLEAN, reply \in QuotaListReplies :
          /\ flashcards = {} \/ refresh
          /\ LET o == ListByTopic(flashcards, refresh, reply)
             IN  flashcards' = o.val /\ ByTopicAnswer(o, reply)
    /\ UNCHANGED <<today, django_q, call, tables, note, mindmap, mcqs, tasks, job, hist, gen>>

QuotaMcqs ==
    /\ \E refresh \in BOOLEAN, reply \in QuotaListReplies :
          /\ mcqs = {} \/ refresh
          /\ LET o == ListByTopic(mcqs, refresh, reply)
             IN  mcqs' = o.val /\ ByTopicAnswer(o, reply)
    /\ UNCHANGED <<today, django_q, call, tables, note, mindmap, flashcards, tasks, job, hist, gen>>

InitQuota ==
    /\ today = 0
    /\ \E k \in BOOLEAN : profile = NewProfile(k)
    /\ \E old \in BOOLEAN : TopicInit(old)
    /\ tasks = [t \in TaskTypes |-> <<>>]
    /\ req = [r \in Slots |-> IdleReq]
    /\ job = [r \in Slots |-> NoJob]
    /\ run = [r \in Slots |-> NoRun]
    /\ budget = MaxQuotaReq
    /\ hist = NoHist
    /\ gen = NoGen
    /\ django_q = TRUE
    /\ client = FALSE
    /\ call = NoCall
    /\ tables = NoTables

NextQuota ==
    \/ Admit(1)
    \/ QuotaInlineRun
    \/ QuotaNotes
    \/ QuotaMindmap
    \/ QuotaFlashcards
    \/ QuotaMcqs
    \/ NextRequest(1)

SpecQuota == InitQuota /\ [][NextQuota]_vars

\* ------------------------------------------------------- SpecQuotaTask:
\* NSlots concurrent deferred generate_content requests; the provider fails
\* the notes or the mindmap call with a quota error or another error, or
\* answers all four calls
QuotaWorkerRun(r) ==
    /\ job[r].pc = "processing"
    /\ \E n \in {x \in QuotaNotesReplies : x.error \/ x.valid}, m \in QuotaMindmapReplies :
          WorkerRunWith(r, n, m, GovList, GovList)
    /\ job' = [job EXCEPT ![r].pc = "returned"]
    /\ client' = WorkerClient(r)
    /\ UNCHANGED <<today, django_q, call, tables, req, budget, gen>>

NextQuotaTask ==
    \E r \in Slots :
        \/ Admit(r)
        \/ TaskUpsert(r)
        \/ TaskCreate(r)
        \/ WorkerStart(r)
        \/ QuotaWorkerRun(r)

SpecQuotaTask == Init /\ [][NextQuotaTask]_vars

\* ------------------------------------------------------------ SpecCall:
\* one call of a Generation Client operation, made directly or by a
\* single-kind task or by_topic request, for each outcome of the provider
ParsingOps == {"generate_notes", "generate_mindmap", "generate_flashcards", "generate_mcqs"}
NewCall(op, o) ==
    [pc |-> "made", op |-> op, outcome |-> o, by |-> "none", ret |-> NoneValue,
     parsed |-> NoneValue, end |-> "none"]
\* the call has returned ret to the caller by, whose handler ended with end
Returned(by, ret, end) ==
    [call EXCEPT !.pc = "returned", !.by = by, !.ret = ret, !.end = end,
                 !.parsed = IF call.outcome.kind = "text" /\ call.op \in ParsingOps
                            THEN clean_json_response(call.outcome.text)
                            ELSE NoneValue]
TaskEnd(rows) == rows[1].status
RequestEnd(status) == IF status = 200 THEN "completed" ELSE "failed"

ClientCall ==
    /\ call.pc = "made"
    /\ call' = Returned("direct", Operation(call.op, call.outcome), "none")
    /\ UNCHANGED <<today, profile, artifacts, tasks, req, job, run, budget, hist, gen,
                   django_q, client, tables>>

\* generate_notes_task around the call (an exception out of the call: the
\* handler logs and returns)
NotesTaskCall ==
    /\ call.pc = "made" /\ call.op = "generate_notes"
    /\ LET reply == generate_notes(call.outcome)
       IN  /\ IF reply.type = "raised"
              THEN /\ tasks' = [tasks EXCEPT !["generate_notes"] =
                                                <<StartedTask(tasks["generate_notes"])>>]
                   /\ UNCHANGED <<note, gen>>
              ELSE NotesTaskWith(reply)
           /\ call' = Returned("task", reply, TaskEnd(tasks'["generate_notes"]))
    /\ budget' = budget - 1
    /\ UNCHANGED <<today, django_q, tables, client, profile, mindmap, flashcards, mcqs, req,
                   job, run, hist>>

\* generate_flashcards_task around the call
FlashcardsTaskCall ==
    /\ call.pc = "made" /\ call.op = "generate_flashcards"
    /\ LET reply == generate_flashcards(call.outcome)
       IN  /\ FlashcardsTaskWith(reply)
           /\ call' = Returned("task", reply, TaskEnd(tasks'["generate_flashcards"]))
    /\ budget' = budget - 1
    /\ UNCHANGED <<today, django_q, tables, client, profile, note, mindmap, mcqs, req, job,
                   run, hist>>

\* NoteViewSet.by_topic around the call (an exception out of the call is
\* answered 500)
NotesRequestCall ==
    /\ call.pc = "made" /\ call.op = "generate_notes"
    /\ \E refresh \in BOOLEAN :
          /\ note = None \/ refresh
          /\ LET reply == generate_notes(call.outcome)
             IN  IF reply.type = "raised"
                 THEN /\ call' = Returned("request", reply, RequestEnd(500))
                      /\ note' = None
                      /\ profile' = check_ai_usage(profile, today).profile
                      /\ client' = get_api_key(profile)
                 ELSE LET o == SingletonByTopic(note, ~reply.error /\ reply.valid, reply)
                      IN  /\ note' = o.val
                          /\ profile' = o.profile
                          /\ client' = o.client
                          /\ call' = Returned("request", reply, RequestEnd(o.status))
    /\ budget' = budget - 1
    /\ UNCHANGED <<today, django_q, tables, mindmap, flashcards, mcqs, tasks, req, job, run,
                   hist, gen>>

\* FlashcardViewSet.by_topic around the call
FlashcardsRequestCall ==
    /\ call.pc = "made" /\ call.op = "generate_flashcards"
    /\ \E refresh \in BOOLEAN :
          /\ flashcards = {} \/ refresh
          /\ LET reply == generate_flashcards(call.outcome)
                 o == ListByTopic(flashcards, refresh, reply)
             IN  /\ flashcards' = o.val
                 /\ profile' = o.profile
                 /\ client' = o.client
                 /\ call' = Returned("request", reply, RequestEnd(o.status))
    /\ budget' = budget - 1
    /\ UNCHANGED <<today, django_q, tables, note, mindmap, mcqs, tasks, req, job, run, hist,
                   gen>>

InitCall ==
    /\ today = 0
    /\ profile = NewProfile(FALSE)
    /\ \E old \in BOOLEAN : TopicInit(old)
    /\ tasks = [t \in TaskTypes |-> <<>>]
    /\ req = [r \in Slots |-> IdleReq]
    /\ job = [r \in Slots |-> NoJob]
    /\ run = [r \in Slots |-> NoRun]
    /\ budget = 1
    /\ hist = NoHist
    /\ gen = NoGen
    /\ django_q = TRUE
    /\ client = FALSE
    /\ \E op \in Ops, o \in Outcomes : call = NewCall(op, o)
    /\ tables = NoTables

NextCall ==
    \/ ClientCall
    \/ NotesTaskCall
    \/ FlashcardsTaskCall
    \/ NotesRequestCall
    \/ FlashcardsRequestCall

SpecCall == InitCall /\ [][NextCall]_vars

\* ------------------------------------------------------------ SpecRows:
\* NSlots concurrent requests for one topic, each a notes or mindmap by_topic
\* request or a deferred generate_content request, with the statements on the
\* Note and Mindmap tables followed one by one (tables.note, tables.mindmap:
\* the rows, each named by the request that inserted it)
Singles == {"note", "mindmap"}

\* the alternative reading: topic is a ForeignKey, nothing stops a second row
InsertUnchecked(rows, id) == [rows |-> rows \cup {id}, raised |-> FALSE]

\* INSERT of a row for the topic: topic is a OneToOneField, the unique
\* index on topic_id refuses a second row with IntegrityError
Insert(rows, id) ==
    IF rows = {}
    THEN [rows |-> {id}, raised |-> FALSE]
    ELSE [rows |-> rows, raised |-> TRUE]

CreatingPc(k) == IF k = "note" THEN "creating_note" ELSE "creating_mindmap"
InsertingPc(k) == IF k = "note" THEN "inserting_note" ELSE "inserting_mindmap"
LookupPc(k) == IF k = "note" THEN "processing" ELSE "lookup_mindmap"
AfterPc(k) == IF k = "note" THEN "lookup_mindmap" ELSE "finish"
SingleReplies(k) == IF k = "note" THEN NotesReplies ELSE MindmapReplies
\* the reply has what the columns of the row need
Storable(k, reply) == IF k = "note" THEN reply.valid ELSE TRUE

\* by_topic of NoteViewSet / MindmapViewSet up to the provider call: the row
\* is looked up; one that exists is returned, or deleted on refresh; then
\* check_ai_usage
RowsLookup(r, k) ==
    /\ req[r].pc = "idle"
    /\ budget > 0
    /\ budget' = budget - 1
    /\ \E refresh \in BOOLEAN :
          IF tables[k] # {} /\ ~refresh
          THEN /\ req' = [req EXCEPT ![r] = Respond(r, 200)]
               /\ UNCHANGED <<profile, tables>>
          ELSE LET v == check_ai_usage(profile, today)
               IN  /\ tables' = [tables EXCEPT ![k] = {}]
                   /\ profile' = v.profile
                   /\ req' = [req EXCEPT ![r] =
                                IF v.allowed
                                THEN [IdleReq EXCEPT !.pc = CreatingPc(k),
                                                     !.api_key = v.api_key,
                                                     !.prof = v.profile, !.day = today]
                                ELSE Respond(r, 429)]
    /\ UNCHANGED <<today, django_q, call, client, artifacts, tasks, job, run, hist, gen>>

\* ... from the provider call on: usage is recorded, then objects.create
RowsCreate(r, k) ==
    /\ req[r].pc = CreatingPc(k)
    /\ client' = req[r].api_key
    /\ \E reply \in SingleReplies(k) :
          IF reply.error
          THEN /\ req' = [req EXCEPT ![r] = Respond(r, ErrorStatus(reply))]
               /\ run' = Ran(r, ErrorCodes(<<reply>>), "failed")
               /\ UNCHANGED <<profile, tables>>
          ELSE LET inc == increment_ai_usage(req[r].prof, profile)
                   upd == update_token_usage(inc.cached, inc.stored, reply.usage)
                   ins == IF Storable(k, reply) THEN Insert(tables[k], r)
                          ELSE [rows |-> tables[k], raised |-> TRUE]
               IN  /\ profile' = upd.stored
                   /\ tables' = [tables EXCEPT ![k] = ins.rows]
                   /\ req' = [req EXCEPT ![r] = Recorded(r, IF ins.raised THEN 500 ELSE 200)]
                   /\ run' = Ran(r, {}, IF ~ins.raised THEN "completed"
                                        ELSE IF Storable(k, reply) THEN "IntegrityError"
                                        ELSE "failed")
    /\ UNCHANGED <<today, django_q, call, artifacts, tasks, job, budget, hist, gen>>

\* the content of a run of generate_content_task whose four calls answered
RowsContent ==
    generate_all_content(CHOOSE n \in NotesReplies : ~n.error /\ n.valid,
                         GovMindmap, GovList, GovList)

\* generate_content_task from the provider calls to the first statement of
\* Note.objects.update_or_create: get() finds the row and updates it, or
\* finds none
RowsTaskCalls(r) ==
    /\ job[r].pc = LookupPc("note")
    /\ client' = WorkerClient(r)
    /\ \E n \in NotesReplies, m \in MindmapReplies :
          LET c == generate_all_content(n, m, GovList, GovList)
              errs == ErrorCodes(<<n, m>>)
          IN  IF ContentErrors(c) # {}
              THEN /\ tasks' = SaveTask(Failed(job[r].tk, TaskErrorMessage(c)))
                   /\ run' = Ran(r, errs, "failed")
                   /\ job' = [job EXCEPT ![r].pc = "returned"]
              ELSE IF ~n.valid
              THEN /\ tasks' = SaveTask(Failed(job[r].tk, ExceptionText))
                   /\ run' = Ran(r, errs, "failed")
                   /\ job' = [job EXCEPT ![r].pc = "returned"]
              ELSE /\ job' = [job EXCEPT ![r].pc = IF tables.note # {} THEN AfterPc("note")
                                                   ELSE InsertingPc("note")]
                   /\ UNCHANGED <<tasks, run>>
    /\ UNCHANGED <<today, django_q, call, tables, profile, artifacts, req, budget, hist, gen>>

\* Mindmap.objects.update_or_create, first statement
RowsTaskLookup(r) ==
    /\ job[r].pc = LookupPc("mindmap")
    /\ job' = [job EXCEPT ![r].pc = IF tables.mindmap # {} THEN AfterPc("mindmap")
                                     ELSE InsertingPc("mindmap")]
    /\ UNCHANGED <<today, django_q, call, tables, client, profile, artifacts, tasks, req,
                   run, budget, hist, gen>>

\* update_or_create after get() found no row: create(); on IntegrityError
\* the row another writer inserted is fetched and updated
RowsTaskInsert(r, k) ==
    /\ job[r].pc = InsertingPc(k)
    /\ tables' = [tables EXCEPT ![k] = Insert(tables[k], r).rows]
    /\ job' = [job EXCEPT ![r].pc = AfterPc(k)]
    /\ run' = IF Insert(tables[k], r).raised
              THEN [run EXCEPT ![r].ended = "IntegrityError"] ELSE run
    /\ UNCHANGED <<today, django_q, call, client, profile, artifacts, tasks, req, budget,
                   hist, gen>>

\* generate_content_task from "Save flashcards" to the end
RowsTaskFinish(r) ==
    /\ job[r].pc = "finish"
    /\ LET c == RowsContent
           w == WorkerEnd(DB(note, mindmap, flashcards, mcqs), profile, r, c)
       IN  /\ flashcards' = w.db.flashcards
           /\ mcqs' = w.db.mcqs
           /\ profile' = w.profile
           /\ tasks' = SaveTask([job[r].tk EXCEPT
                                    !.status = "completed", !.completed_at = TRUE,
                                    !.result = [flashcards |-> Len(c.flashcards.items),
                                                mcqs |-> Len(c.mcqs.items)]])
    /\ run' = Ran(r, {}, "completed")
    /\ job' = [job EXCEPT ![r].pc = "returned"]
    /\ UNCHANGED <<today, django_q, call, tables, client, note, mindmap, req, budget, hist,
                   gen>>

NextRows ==
    \E r \in Slots :
        \/ \E k \in Singles : RowsLookup(r, k)
        \/ \E k \in Singles : RowsCreate(r, k)
        \/ Admit(r)
        \/ TaskUpsert(r)
        \/ TaskCreate(r)
        \/ WorkerStart(r)
        \/ RowsTaskCalls(r)
        \/ RowsTaskLookup(r)
        \/ \E k \in Singles : RowsTaskInsert(r, k)
        \/ RowsTaskFinish(r)

SpecRows == InitGov /\ [][NextRows]_vars

\* ------------------------------------------------------------- SpecAux:
\* one user making doubt-chat and tag_questions requests one after another,
\* setting and removing the personal credential in between, while the day
\* changes; the subject starts with up to MaxPyq untagged questions
Credential(key) == IF key THEN "personal" ELSE "shared"

\* answer_doubt: an error dict, or the answer with its usage
AnswerReplies ==
    {ErrorDict} \cup
    {[type |-> "dict", error |-> FALSE, usage |-> u] : u \in UsageVals}

\* tag_pyq_to_topic: an error dict, or the topic text (one of the subject's
\* topic names, or another text) with its usage
TagReplies ==
    {ErrorDict} \cup
    {[type |-> "dict", error |-> FALSE, known |-> k, usage |-> u] :
        k \in BOOLEAN, u \in UsageVals}

\* ChatView.post
ChatPost(r) ==
    /\ req[r].pc = "idle"
    /\ budget > 0
    /\ budget' = budget - 1
    /\ LET v == check_ai_usage(profile, today)
       IN  IF ~v.allowed
           THEN /\ profile' = v.profile
                /\ req' = [req EXCEPT ![r] = [Respond(r, 429) EXCEPT !.api_key = v.api_key]]
                /\ UNCHANGED <<client, tables, run>>
           ELSE \E n \in NotesReplies, a \in AnswerReplies :
                  LET create == tables.note = {} /\ ~n.error
                      ins == IF Storable("note", n) THEN Insert(tables.note, r)
                             ELSE [rows |-> tables.note, raised |-> TRUE]
                      done(code) == [Respond(r, code) EXCEPT !.api_key = v.api_key]
                  IN  /\ client' = v.api_key
                      /\ run' = [Ran(r, {}, "answered") EXCEPT ![r].sent = Credential(v.api_key)]
                      /\ IF create /\ ins.raised
                         THEN /\ profile' = v.profile
                              /\ req' = [req EXCEPT ![r] = done(500)]
                              /\ UNCHANGED tables
                         ELSE IF a.error
                         THEN /\ profile' = v.profile
                              /\ req' = [req EXCEPT ![r] = done(ErrorStatus(a))]
                              /\ tables' = [tables EXCEPT
                                              !.note = IF create THEN ins.rows ELSE @]
                         ELSE LET upd == update_token_usage(v.profile, v.profile, a.usage)
                                  inc == increment_ai_usage(upd.cached, upd.stored)
                              IN  /\ profile' = inc.stored
                                  /\ req' = [req EXCEPT ![r] = done(200)]
                                  /\ tables' = [tables EXCEPT
                                                  !.note = IF create THEN ins.rows ELSE @,
                                                  !.chats = @ + 1]
    /\ UNCHANGED <<today, django_q, call, artifacts, tasks, job, hist, gen>>

\* the loop of tag_questions over the replies to the untagged questions: the
\* usage recorded and the number of questions tagged
RECURSIVE TagLoop(_, _)
TagLoop(replies, p) ==
    IF replies = <<>>
    THEN [profile |-> p, tagged |-> 0]
    ELSE LET reply == Head(replies)
         IN  IF reply.error
             THEN TagLoop(Tail(replies), p)
             ELSE LET rest == TagLoop(Tail(replies),
                                      update_token_usage(p, p, reply.usage).stored)
                  IN  [rest EXCEPT !.tagged = @ + (IF reply.known THEN 1 ELSE 0)]

\* PYQViewSet.tag_questions
TagQuestions(r) ==
    /\ req[r].pc = "idle"
    /\ budget > 0
    /\ budget' = budget - 1
    /\ \E replies \in [1..tables.untagged -> TagReplies] :
          LET t == TagLoop(replies, profile)
          IN  /\ profile' = t.profile
              /\ tables' = [tables EXCEPT !.untagged = @ - t.tagged]
    /\ IF tables.untagged > 0
       THEN /\ client' = FALSE
            /\ run' = [Ran(r, {}, "tagged") EXCEPT ![r].sent = Credential(FALSE)]
       ELSE UNCHANGED <<client, run>>
    /\ req' = [req EXCEPT ![r] = [IdleReq EXCEPT !.pc = "done", !.status = 200]]
    /\ UNCHANGED <<today, django_q, call, artifacts, tasks, job, hist, gen>>

InitAux ==
    /\ today = 0
    /\ \E k \in BOOLEAN : profile = NewProfile(k)
    /\ TopicInit(FALSE)
    /\ tasks = [t \in TaskTypes |-> <<>>]
    /\ req = [r \in Slots |-> IdleReq]
    /\ job = [r \in Slots |-> NoJob]
    /\ run = [r \in Slots |-> NoRun]
    /\ budget = MaxAuxReq
    /\ hist = NoHist
    /\ gen = NoGen
    /\ django_q = TRUE
    /\ client = FALSE
    /\ call = NoCall
    /\ \E n \in 0..MaxPyq : tables = [NoTables EXCEPT !.untagged = n]

NextAux ==
    \/ ChatPost(1)
    \/ TagQuestions(1)
    \/ NextRequest(1)
    \/ UpdateApiKey
    \/ Tick

SpecAux == InitAux /\ [][NextAux]_vars

\* ------------------------------------------------------------ SpecCost:
\* up to MaxCostUpd usage updates of one profile, with reads of the profile
\* endpoint in between; amounts in units of 0.0001 dollar
CostUsages == {<<1000000, 1000000>>, <<500, 0>>, <<300, 50>>, <<0, 125>>, <<1499, 1>>}

\* the alternative reading: output tokens priced like input tokens
estimated_cost_FlatRate(p) ==
    LET x == p.total_input_tokens * 10 + p.total_output_tokens * 10
    IN  {x \div 10000 + (IF x % 10000 >= 5000 THEN 1 ELSE 0)}

\* UserProfile.estimated_cost: (in / 1e6) * 0.10 + (out / 1e6) * 0.40 in
\* doubles, then round(_, 4). x is the exact amount in 1e-8 dollar; the
\* doubles differ from it by less than the distance to any other multiple of
\* 0.0001 unless x lies halfway between two, where the double sum falls to
\* either side: the set of values the property can return
estimated_cost(p) ==
    LET x == p.total_input_tokens * 10 + p.total_output_tokens * 40
        q == x \div 10000
    IN  IF x % 10000 = 5000 THEN {q, q + 1}
        ELSE IF x % 10000 > 5000 THEN {q + 1}
        ELSE {q}

\* update_token_usage(request.user, usage) of a request that loads the profile
RecordUsage ==
    /\ budget > 0
    /\ budget' = budget - 1
    /\ \E u \in CostUsages : profile' = update_token_usage(profile, profile, u).stored
    /\ UNCHANGED <<today, django_q, call, tables, client, artifacts, tasks, req, job, run,
                   hist, gen>>

\* AuthViewSet.profile: the totals and the cost, read from one loaded profile
ProfileRead ==
    /\ \E c \in estimated_cost(profile) :
          call' = [pc |-> "profile",
                   total_input_tokens |-> profile.total_input_tokens,
                   total_output_tokens |-> profile.total_output_tokens,
                   estimated_cost |-> c]
    /\ UNCHANGED <<today, django_q, tables, client, profile, artifacts, tasks, req, job,
                   run, budget, hist, gen>>

InitCost ==
    /\ today = 0
    /\ \E k \in BOOLEAN : profile = NewProfile(k)
    /\ TopicInit(FALSE)
    /\ tasks = [t \in TaskTypes |-> <<>>]
    /\ req = [r \in Slots |-> IdleReq]
    /\ job = [r \in Slots |-> NoJob]
    /\ run = [r \in Slots |-> NoRun]
    /\ budget = MaxCostUpd
    /\ hist = NoHist
    /\ gen = NoGen
    /\ django_q = TRUE
    /\ client = FALSE
    /\ call = NoCall
    /\ tables = NoTables

NextCost ==
    \/ RecordUsage
    \/ ProfileRead

SpecCost == InitCost /\ [][NextCost]_vars

\* ----------------------------------------------------------- SpecOwner:
\* one user making up to MaxGen inline generate_content and by_topic requests
\* one after another for a topic of their own or of another user's subject
\* (tables.mine); the artifacts are the topic's

\* self.get_object() of generate_content: the topic is looked up in
\* get_queryset(), Topic.objects.filter(unit__subject__user=request.user)
TopicNotFound(r) ==
    /\ req[r].pc = "admitted"
    /\ ~tables.mine
    /\ req' = [req EXCEPT ![r] = Respond(r, 404)]
    /\ UNCHANGED <<today, django_q, call, tables, client, profile, artifacts, tasks, job,
                   run, budget, hist, gen>>

\* ... and, the topic found, the rest of the inline request, the provider
\* failing the notes call or answering all four calls
TopicInlineRun ==
    /\ tables.mine
    /\ GovInlineRun

InitOwner ==
    /\ today = 0
    /\ \E k \in BOOLEAN : profile = NewProfile(k)
    /\ \E old \in BOOLEAN : TopicInit(old)
    /\ tasks = [t \in TaskTypes |-> <<>>]
    /\ req = [r \in Slots |-> IdleReq]
    /\ job = [r \in Slots |-> NoJob]
    /\ run = [r \in Slots |-> NoRun]
    /\ budget = MaxGen
    /\ hist = NoHist
    /\ gen = NoGen
    /\ django_q = TRUE
    /\ client = FALSE
    /\ call = NoCall
    /\ \E mine \in BOOLEAN : tables = [NoTables EXCEPT !.mine = mine]

\* by_topic of the four kinds looks the topic up with
\* get_object_or_404(Topic, pk=topic_id), whoever it belongs to
NextOwner ==
    \/ Admit(1)
    \/ TopicNotFound(1)
    \/ TopicInlineRun
    \/ NextRequest(1)
    \/ NotesByTopic
    \/ MindmapByTopic
    \/ FlashcardsByTopic
    \/ McqsByTopic

SpecOwner == InitOwner /\ [][NextOwner]_vars

\* ----------------------------------------------------------- SpecOrder:
\* one execution of generate_all_content followed call by call: call.next is
\* the statement it is at, call.issued the provider calls made so far with the
\* notes context each was given, call.got the replies returned so far
OrderOps == <<"notes", "mindmap", "flashcards", "mcqs">>
Returning == Len(OrderOps) + 1

RepliesOf(op) ==
    CASE op = "notes" -> NotesReplies
      [] op = "mindmap" -> MindmapReplies
      [] OTHER -> ListReplies

\* notes.get('detailed_content', notes.get('summary', ''))
NotesContent(notes) == IF notes.error THEN "" ELSE "content"

\* the arguments of the call: flashcards and mcqs are given notes_content
ArgsOf(i, got) ==
    [op |-> OrderOps[i],
     notes_content |-> IF OrderOps[i] \in {"flashcards", "mcqs"}
                       THEN NotesContent(got[1]) ELSE "unused"]

\* the alternative reading: an error reply ends the orchestration
AfterReply_StopOnError(i, reply) == IF reply.error THEN Returning ELSE i + 1

\* the statement after call i has returned reply: the next one
AfterReply(i, reply) == i + 1

IssueCall ==
    /\ call.pc = "all"
    /\ ~call.waiting
    /\ call.next < Returning
    /\ call' = [call EXCEPT !.waiting = TRUE,
                            !.issued = Append(@, ArgsOf(call.next, call.got))]
    /\ UNCHANGED <<today, django_q, tables, client, profile, artifacts, tasks, req, job,
                   run, budget, hist, gen>>

\* the call returns: generate_notes .. generate_mcqs return a dict whatever
\* the provider did
ReturnCall ==
    /\ call.pc = "all"
    /\ call.waiting
    /\ \E reply \in RepliesOf(OrderOps[call.next]) :
          call' = [call EXCEPT !.waiting = FALSE,
                               !.got = Append(@, reply),
                               !.next = AfterReply(call.next, reply)]
    /\ UNCHANGED <<today, django_q, tables, client, profile, artifacts, tasks, req, job,
                   run, budget, hist, gen>>

\* the usage is aggregated and the content returned
ReturnAll ==
    /\ call.pc = "all"
    /\ ~call.waiting
    /\ call.next = Returning
    /\ Len(call.got) = Len(OrderOps)
    /\ call' = [call EXCEPT
                  !.pc = "returned",
                  !.usage = generate_all_content(call.got[1], call.got[2], call.got[3],
                                                 call.got[4]).usage]
    /\ UNCHANGED <<today, django_q, tables, client, profile, artifacts, tasks, req, job,
                   run, budget, hist, gen>>

InitOrder ==
    /\ today = 0
    /\ \E k \in BOOLEAN : profile = NewProfile(k)
    /\ TopicInit(FALSE)
    /\ tasks = [t \in TaskTypes |-> <<>>]
    /\ req = [r \in Slots |-> IdleReq]
    /\ job = [r \in Slots |-> NoJob]
    /\ run = [r \in Slots |-> NoRun]
    /\ budget = NSlots
    /\ hist = NoHist
    /\ gen = NoGen
    /\ django_q = TRUE
    /\ client = FALSE
    /\ call = [pc |-> "all", next |-> 1, waiting |-> FALSE, issued |-> <<>>, got |-> <<>>,
               usage |-> <<0, 0>>]
    /\ tables = NoTables

NextOrder ==
    \/ IssueCall
    \/ ReturnCall
    \/ ReturnAll

SpecOrder == InitOrder /\ [][NextOrder]_vars

\* ------------------------------------------------------------ SpecLive:
\* one deferred generate_content request and a worker that keeps running;
\* the provider answers a call, fails it, or never answers it
\* self.model.generate_content(prompt) is called without a timeout: with a
\* provider that stays silent the worker waits in the call
ProviderSilent(r) ==
    /\ job[r].pc = "processing"
    /\ job' = [job EXCEPT ![r].pc = "waiting"]
    /\ UNCHANGED <<today, django_q, call, tables, client, profile, artifacts, tasks, req,
                   run, budget, hist, gen>>

InitLive ==
    /\ today = 0
    /\ \E k \in BOOLEAN : profile = NewProfile(k)
    /\ \E old \in BOOLEAN : TopicInit(old)
    /\ tasks = [t \in TaskTypes |-> <<>>]
    /\ req = [r \in Slots |-> IdleReq]
    /\ job = [r \in Slots |-> NoJob]
    /\ run = [r \in Slots |-> NoRun]
    /\ budget = 1
    /\ hist = NoHist
    /\ gen = NoGen
    /\ django_q = TRUE
    /\ client = FALSE
    /\ call = NoCall
    /\ tables = NoTables

NextLive ==
    \/ Admit(1)
    \/ TaskUpsert(1)
    \/ TaskCreate(1)
    \/ WorkerStart(1)
    \/ WorkerRun(1)
    \/ ProviderSilent(1)

\* the django-q worker takes the queued job and runs the task function on
SpecLive ==
    /\ InitLive
    /\ [][NextLive]_vars
    /\ WF_vars(WorkerStart(1))
    /\ WF_vars(WorkerRun(1))

\* ------------------------------------------------------------ the claims
\* no row of generation g is stored
NoArtifactOf(g) ==
    /\ note # g
    /\ mindmap # g
    /\ \A x \in flashcards \cup mcqs : x[1] # g

\* C1: a generate-everything run in which one of the four calls returned an
\* error ends failed and leaves no artifact of its own behind.
C1_ErrorFailsAndPersistsNothing ==
    \A r \in Slots :
        (run[r].erred /\ run[r].ended # "none") =>
            (run[r].ended = "failed" /\ NoArtifactOf(r))

\* C2: when generate_content_task's run ends, either the four kinds of that
\* run are stored and the task is completed, or the topic's artifacts are what
\* they were before the run and the task is failed.
C2_AllOrNothing ==
    [][\A r \in Slots :
          (job[r].pc = "processing" /\ job'[r].pc = "returned") =>
              LET tk == tasks'["generate_all"][1]
              IN  \/ /\ tk.status = "completed"
                     /\ note' = r
                     /\ mindmap' = r
                     /\ flashcards' = Rows(r, tk.result.flashcards)
                     /\ mcqs' = Rows(r, tk.result.mcqs)
                  \/ /\ tk.status = "failed"
                     /\ artifacts' = artifacts]_vars

\* C3: there is never more than one task record for a (user, topic, kind).
C3_OneTaskRow ==
    \A t \in TaskTypes : Len(tasks[t]) <= 1

\* C4: a task record starts pending and its status changes only by
\* pending -> processing, processing -> completed, processing -> failed, or a
\* reset to pending.
LegalMove(a, b) ==
    \/ a = b
    \/ b = "pending"
    \/ (a = "pending" /\ b = "processing")
    \/ (a = "processing" /\ b \in {"completed", "failed"})

C4_Lifecycle ==
    [][\A t \in TaskTypes : \A i \in 1..Len(tasks'[t]) :
          IF i <= Len(tasks[t])
          THEN LegalMove(tasks[t][i].status, tasks'[t][i].status)
          ELSE tasks'[t][i].status = "pending"]_vars


\* C6: a user with no personal credential who has had DAILY_CAP generations
\* succeed today, in whatever mode, is denied by check_ai_usage.
C6_CapDenies ==
    (~get_api_key(profile) /\ hist.succeeded >= DAILY_CAP) =>
        ~check_ai_usage(profile, today).allowed

\* a request or job of slot r ends in this step
RequestRecords(r) == req[r].pc = "admitted" /\ req'[r].pc = "done"
JobReturns(r) == job[r].pc \in {"queued", "processing"} /\ job'[r].pc = "returned"

\* C7: a user holding a personal credential is admitted whatever daily_count
\* is, and no request or job made with a personal credential changes
\* daily_count, also when the credential is removed before usage is recorded.
C7_PersonalKeyUnlimited ==
    [][\A r \in Slots :
          /\ (req[r].pc = "idle" /\ req'[r].pc # "idle" /\ get_api_key(profile)) =>
                (req'[r].pc = "admitted" /\ req'[r].api_key)
          /\ (RequestRecords(r) /\ req[r].api_key) =>
                profile'.daily_ai_usage_count = profile.daily_ai_usage_count
          /\ (JobReturns(r) /\ job[r].api_key) =>
                profile'.daily_ai_usage_count = profile.daily_ai_usage_count]_vars

\* C7 witness: a request admitted on the personal credential, with daily_count
\* at the cap, has succeeded after the credential was removed.
C7_Witness ==
    \E r \in Slots :
        /\ req[r].pc = "done" /\ req[r].status = 200
        /\ req[r].api_key /\ req[r].swapped
        /\ profile.daily_ai_usage_count >= DAILY_CAP

\* C8: every generation that succeeds on the shared credential raises
\* daily_count by exactly one, in either mode.
C8_SuccessCountsOnce ==
    [][hist'.succeeded = hist.succeeded + 1 =>
          profile'.daily_ai_usage_count = profile.daily_ai_usage_count + 1]_vars

\* C9: on a later day the shared-credential user is admitted again, and
\* daily_count is reset only by the first read or write of the counter on the
\* new day, so a reset never erases usage recorded today.
C9_LazyResetOnce ==
    /\ [](~get_api_key(profile) /\ profile.last_usage_date < today =>
            check_ai_usage(profile, today).allowed)
    /\ [][profile'.daily_ai_usage_count < profile.daily_ai_usage_count =>
            hist.recorded = 0]_vars


Terminal(rows) == \A i \in 1..Len(rows) : rows[i].status \in {"completed", "failed"}

\* C5: when a task function returns, also after an exception inside it, the
\* task record of its (user, topic, kind) is completed or failed.
C5_TaskEndsTerminal ==
    [][/\ \A r \in Slots : JobReturns(r) => Terminal(tasks'["generate_all"])
       /\ \A t \in {"generate_notes", "generate_flashcards"} :
             tasks'[t] # tasks[t] => Terminal(tasks'[t])]_vars

\* the stored artifacts of kind k are exactly those of generation g, which
\* produced n items
StoredIs(k, g, n) ==
    CASE k = "notes" -> note = g
      [] k = "mindmap" -> mindmap = g
      [] k = "flashcards" -> flashcards = Rows(g, n)
      [] k = "mcqs" -> mcqs = Rows(g, n)

\* C10: after two successful single-kind generations in a row, exactly the
\* second one's artifacts of that kind are stored.
C10_SecondReplacesFirst ==
    \A k \in Kinds : gen[k].streak = 2 => StoredIs(k, gen[k].g, gen[k].n)

\* C10 witness: over a topic that had flashcards, flashcards were generated
\* twice in a row, the second time with items, and the task function ran.
C10_Witness ==
    /\ gen["flashcards"].streak = 2 /\ gen["flashcards"].n > 0
    /\ gen["flashcards"].g > 1
    /\ mcqs = {<<0, 1>>}
    /\ Len(tasks["generate_flashcards"]) = 1


\* C13: one accepted generate-everything request runs the orchestration once,
\* also when run_task_async falls back to calling the task function itself.
C13_RunsOnce ==
    \A r \in Slots : run[r].runs <= 1


\* C11: when a generate-everything run in which no call failed ends
\* successfully, in either mode, the topic's flashcards and MCQs are rows of
\* that run and of no earlier one.
C11_RunReplacesLists ==
    [][\A r \in Slots :
          (run'[r] # run[r] /\ run'[r].ended = "completed" /\ ~run'[r].erred) =>
              \A x \in flashcards' \cup mcqs' : x[1] = r]_vars

\* the four replies of a run in which no call returned an error
CleanReplies ==
    {x \in NotesReplies \X MindmapReplies \X ListReplies \X ListReplies :
        \A i \in 1..4 : ~x[i].error}

\* C12: from the same stored state and the same replies, the inline path and
\* generate_content_task leave the same artifacts and the same usage profile.
C12_ModesAgree ==
    \A r \in Slots :
        req[r].pc = "admitted" =>
            \A x \in CleanReplies :
                LET c == generate_all_content(x[1], x[2], x[3], x[4])
                    db == DB(note, mindmap, flashcards, mcqs)
                IN  InlineEnd(db, req[r].prof, profile, r, c) = WorkerEnd(db, profile, r, c)


\* C14: a successful generate-everything run adds to total_input_tokens and
\* total_output_tokens the component-wise sum of the metering of its four
\* calls, once.
C14_UsageSummedOnce ==
    [][\A r \in Slots :
          (run'[r] # run[r] /\ run'[r].ended = "completed") =>
              /\ profile'.total_input_tokens =
                    profile.total_input_tokens + (hist'.metered[1] - hist.metered[1])
              /\ profile'.total_output_tokens =
                    profile.total_output_tokens + (hist'.metered[2] - hist.metered[2])
              /\ run'[r].runs = 1]_vars

\* C14 witness: over a ledger of (7,7), a run whose calls were metered with
\* pairs summing to (30,35), such as (10,20), (5,5), (0,0), (15,10), has
\* completed and the totals are (37,42).
C14_Witness ==
    /\ run[1].ended = "completed" /\ hist.metered = <<30, 35>>
    /\ profile.total_input_tokens = 37 /\ profile.total_output_tokens = 42


\* C15: after every single-kind generation whose provider call succeeded, run
\* inline or as a task, the call's metering pair has been added to the user's
\* token totals.
C15_EveryCallMetered ==
    [][\A k \in Kinds :
          gen'[k] # gen[k] =>
              /\ profile'.total_input_tokens = profile.total_input_tokens + gen'[k].meter[1]
              /\ profile'.total_output_tokens =
                    profile.total_output_tokens + gen'[k].meter[2]]_vars


\* every request has been answered and every job has returned
AllFinished ==
    \A r \in Slots : req[r].pc = "done" /\ job[r].pc \in {"none", "returned"}

\* C16: under any interleaving of one user's requests, the token totals never
\* decrease, and once all requests have finished they hold the metering of
\* every successful request: no update is lost.
C16_NoLostTokens ==
    [][/\ profile'.total_input_tokens >= profile.total_input_tokens
       /\ profile'.total_output_tokens >= profile.total_output_tokens
       /\ AllFinished' =>
             /\ profile'.total_input_tokens >= hist'.metered[1]
             /\ profile'.total_output_tokens >= hist'.metered[2]]_vars


\* C17: with at most NSlots requests of a shared-credential user in flight at
\* a time, no more than DAILY_CAP + NSlots - 1 of the user's generations
\* succeed on one day.
C17_CapPlusWindow ==
    hist.succeeded <= DAILY_CAP + NSlots - 1


\* C18: a request that check_ai_usage denies is answered 429 at once: no
\* provider call is made and no job is queued for it, and the profile (token
\* totals, daily_count) is left as it was.
C18_DenialIsInert ==
    [][\A r \in Slots :
          /\ (req[r].pc = "idle" /\ req'[r].pc # "idle"
                 /\ ~check_ai_usage(profile, today).allowed) =>
                /\ req'[r].pc = "done" /\ req'[r].status = 429
                /\ profile' = profile
                /\ client' = client /\ run' = run /\ job' = job
          /\ (req'[r].pc = "done" /\ req'[r].status = 429) =>
                (run'[r].runs = 0 /\ job'[r].pc = "none")]_vars

\* C18 witness: after DAILY_CAP recorded generations the next request of the
\* day has been denied.
C18_Witness ==
    /\ req[1].pc = "done" /\ req[1].status = 429
    /\ profile.daily_ai_usage_count = DAILY_CAP /\ profile.total_input_tokens > 0
    /\ ~get_api_key(profile)


\* C19: a generate-everything run in which a provider call returned an error
\* leaves daily_count and the token totals as they were.
C19_ErrorLeavesUsage ==
    [][\A r \in Slots :
          (run'[r] # run[r] /\ run'[r].erred) =>
              /\ profile'.daily_ai_usage_count = profile.daily_ai_usage_count
              /\ profile'.total_input_tokens = profile.total_input_tokens
              /\ profile'.total_output_tokens = profile.total_output_tokens]_vars


\* C20: every provider call goes out under the credential the governor
\* selected for the request that issues it.
C20_OwnCredential ==
    \A r \in Slots :
        run[r].sent # "none" =>
            run[r].sent = (IF req[r].api_key THEN "personal" ELSE "shared")


\* TopicViewSet.task_status for type generate_all: the fields of the row
\* created last, not_found when there is none
task_status(rows) ==
    IF rows = <<>>
    THEN [status |-> "not_found", completed_at |-> FALSE, error_message |-> <<>>,
          result |-> NoResult]
    ELSE [status |-> rows[Len(rows)].status,
          completed_at |-> rows[Len(rows)].completed_at,
          error_message |-> rows[Len(rows)].error_message,
          result |-> rows[Len(rows)].result]

\* C21: once a generate-everything request has been executed, inline or
\* deferred, task_status answers with the terminal status of that request.
C21_PollTellsOutcome ==
    [][\A r \in Slots :
          (run[r].ended = "none" /\ run'[r].ended # "none") =>
              task_status(tasks'["generate_all"]).status = run'[r].ended]_vars


\* C22: a request in which provider calls failed is answered 429 when the
\* errors were tagged quota_exceeded and 500 when none of them was, whatever
\* the artifact kind and whichever call of a generate-everything request.
C22_QuotaIs429 ==
    \A r \in Slots :
        (req[r].pc = "done" /\ req[r].status # 202) =>
            /\ run[r].errs = {"quota_exceeded"} => req[r].status = 429
            /\ run[r].errs = {"none"} => req[r].status = 500


\* the answer of task_status tells a task that failed on quota
TellsQuota(ans) ==
    /\ ans.status = "failed"
    /\ Contains(ans.error_message, {"quota", "rate limit", "too many requests", "429"})
\* the answer of task_status tells a task that failed on another error
TellsGeneric(ans) ==
    /\ ans.status = "failed"
    /\ ~Contains(ans.error_message, {"quota", "rate limit", "too many requests", "429"})

\* C23: when a deferred run ends failed on provider errors, the fields
\* task_status returns tell whether the errors were tagged quota_exceeded or
\* were generic.
C23_PollTellsQuota ==
    [][\A r \in Slots :
          (job[r].pc = "processing" /\ job'[r].pc = "returned"
                /\ run'[r].ended = "failed") =>
              LET ans == task_status(tasks'["generate_all"])
              IN  /\ run'[r].errs = {"quota_exceeded"} => TellsQuota(ans)
                  /\ run'[r].errs = {"none"} => TellsGeneric(ans)]_vars


\* an operation's return value carries a usage pair
HasUsage(ret) ==
    /\ "usage" \in DOMAIN ret
    /\ ret.usage \in Nat \X Nat

\* C24: whatever the provider does with the call, each Generation Client
\* operation returns a record with a usage pair or a record with an error,
\* no exception leaves it, and the operation itself writes no row.
C24_ReturnsRecord ==
    /\ [](call.pc = "returned" =>
            /\ call.ret.type = "dict"
            /\ call.ret.error \/ HasUsage(call.ret))
    /\ [][(call.pc = "made" /\ call'.pc = "returned" /\ call'.by = "direct") =>
            UNCHANGED <<profile, artifacts, tasks, tables>>]_vars

\* a list reply parsed out of the text made generate_notes return an error,
\* which the task recorded
C24_Witness ==
    /\ call.pc = "returned"
    /\ call.op = "generate_notes"
    /\ call.parsed.type = "list"
    /\ call.ret.error
    /\ call.ret.msg = TypeErrorText
    /\ call.by = "task"


\* the reply text cannot be normalized to the shape the operation expects:
\* no record at all, an array where an object is expected, or an array with
\* elements that are not objects where a list of objects is expected
Unshaped(op, v) ==
    \/ v.type = "none"
    \/ (op \in {"generate_notes", "generate_mindmap"} /\ v.type = "list")
    \/ /\ op \in {"generate_flashcards", "generate_mcqs"}
       /\ v.type = "list"
       /\ \E i \in 1..Len(v.items) : v.items[i] = "x"

\* C25: when the provider replied with a text that cannot be normalized to
\* the expected shape, the call returns a result, not an error, and the task
\* or request around it ends completed.
C25_DegradedCompletes ==
    (/\ call.pc = "returned"
     /\ call.by \in {"task", "request"}
     /\ call.outcome.kind = "text"
     /\ Unshaped(call.op, call.parsed)) =>
        /\ ~call.ret.error
        /\ call.end = "completed"

\* text is commentary, then a well-formed record from position i to j
RecordAt(text, i, j) ==
    /\ \A k \in 1..(i - 1) : text[k] = "c"
    /\ Decodes(SubSeq(text, i, j), 1, <<>>)
\* text holds no well-formed object or array
NoRecord(text) ==
    \A i \in 1..Len(text), j \in 1..Len(text) : ~Decodes(SubSeq(text, i, j), 1, <<>>)

\* C26: from commentary, a first well-formed record and any further text,
\* _clean_json_response returns that record; from a text without a record it
\* returns None and the call site substitutes its sentinel.
C26_FirstRecord ==
    (call.pc = "returned" /\ call.outcome.kind = "text" /\ call.op \in ParsingOps) =>
        LET text == call.outcome.text
        IN  /\ \A i \in 1..Len(text), j \in 1..Len(text) :
                   RecordAt(text, i, j) => call.parsed = json_loads(SubSeq(text, i, j))
            /\ NoRecord(text) =>
                   /\ call.parsed = NoneValue
                   /\ ~call.ret.error
                   /\ call.op \in {"generate_flashcards", "generate_mcqs"} =>
                          call.ret.items = <<>>
                   /\ call.op \in {"generate_notes", "generate_mindmap"} =>
                          call.ret.fallback


\* C27: with the worker running, a task that entered processing eventually
\* is completed or failed.
C27_ProcessingEnds ==
    \A r \in Slots :
        (job[r].pc = "processing") ~>
            (task_status(tasks["generate_all"]).status \in {"completed", "failed"})


\* C28: the topic never has more than one Note row nor more than one Mindmap
\* row.
C28_OneNoteOneMindmap ==
    /\ Cardinality(tables.note) <= 1
    /\ Cardinality(tables.mindmap) <= 1

\* two writers found no row, one inserted, the insert of the other was refused
C28_Witness ==
    \E r \in Slots, k \in Singles :
        /\ run[r].ended = "IntegrityError"
        /\ tables[k] # {}
        /\ r \notin tables[k]


\* C29: every request of doubt chat or topic tagging that calls the provider
\* does so for a user the governor admits, under the credential the governor
\* selects for that user.
C29_AuxFollowsGovernor ==
    [][\A r \in Slots :
          (run[r].sent = "none" /\ run'[r].sent # "none") =>
              /\ check_ai_usage(profile, today).allowed
              /\ run'[r].sent = Credential(check_ai_usage(profile, today).api_key)]_vars


\* C30: the cost in a profile response is the ledger of that moment priced at
\* 0.10 per million input tokens and 0.40 per million output tokens, within
\* half of 0.0001 of the exact amount; a million of each gives 0.50.
C30_CostFromLedger ==
    call.pc = "profile" =>
        LET x == call.total_input_tokens * 10 + call.total_output_tokens * 40
            d == call.estimated_cost * 10000 - x
        IN  /\ d \in -5000..5000
            /\ (call.total_input_tokens = 1000000 /\ call.total_output_tokens = 1000000)
                  => call.estimated_cost = 5000

\* a read after usage updates that brought the ledger to a million of each
C30_Witness ==
    /\ call.pc = "profile"
    /\ call.total_input_tokens = 1000000
    /\ call.total_output_tokens = 1000000
    /\ call.estimated_cost = 5000
    /\ budget < MaxCostUpd


\* the topic's artifacts of one kind
Artifact(k) ==
    CASE k = "notes" -> note
      [] k = "mindmap" -> mindmap
      [] k = "flashcards" -> flashcards
      [] k = "mcqs" -> mcqs

\* C31: a single-kind generation that was denied, or whose provider call
\* returned an error, leaves the topic's artifacts of that kind as they were.
C31_FailedRegenerateKeeps ==
    [][\A k \in Kinds :
          (/\ gen'[k].tried # gen[k].tried
           /\ gen'[k].streak = 0
           /\ gen'[k].meter = <<0, 0>>)
          => Artifact(k)' = Artifact(k)]_vars


\* C32: what task_status returns in pending or processing has no completed_at,
\* error_message or result, and what it returns in completed has no
\* error_message.
C32_StatusOfLatestRun ==
    LET t == task_status(tasks["generate_all"])
    IN  /\ t.status \in {"pending", "processing"} =>
              /\ ~t.completed_at
              /\ t.error_message = <<>>
              /\ t.result = NoResult
        /\ t.status = "completed" => t.error_message = <<>>


\* the worker of slot r having left the queue in this step
Started(r) == job[r].pc = "queued" /\ job'[r].pc # "queued"

\* C33: once a deferred request has been accepted, task_status does not answer
\* not_found, and the worker starting on it marks a record that was already
\* there as processing and holds that record, adding none.
C33_WorkerUpdatesRequestsRecord ==
    /\ [](\A r \in Slots :
             (req[r].pc = "done" /\ req[r].status = 202) =>
                 task_status(tasks["generate_all"]).status # "not_found")
    /\ [][\A r \in Slots :
             Started(r) =>
                 /\ Len(tasks'["generate_all"]) = Len(tasks["generate_all"])
                 /\ job'[r].pc = "processing"
                 /\ \E i \in 1..Len(tasks["generate_all"]) :
                       tasks'["generate_all"][i] = job'[r].tk]_vars


\* C34: no request changes the artifacts of a topic that belongs to another
\* user's subject.
C34_OthersArtifactsUntouched ==
    [][~tables.mine => UNCHANGED artifacts]_vars


\* C35: the stored daily count is never below 0 nor above the cap.
C35_CountWithinCap ==
    profile.daily_ai_usage_count \in 0..DAILY_CAP

\* the count at the cap, a request having recorded its usage while another,
\* admitted below the cap, has yet to record its own
C35_Witness ==
    /\ profile.daily_ai_usage_count = DAILY_CAP
    /\ \E r, q \in Slots :
          /\ req[r].pc = "done" /\ req[r].status = 200
          /\ req[q].pc = "admitted" /\ ~req[q].api_key


\* C36: the provider calls of generate_all_content are notes, mindmap,
\* flashcards, mcqs in that order, each issued once the one before it has
\* returned; all four have been issued when it returns, whatever the replies;
\* after an error reply to notes, flashcards and mcqs get an empty context.
C36_FourCallsInOrder ==
    call.pc \in {"all", "returned"} =>
        /\ Len(call.issued) <= Len(OrderOps)
        /\ \A i \in 1..Len(call.issued) : call.issued[i].op = OrderOps[i]
        /\ Len(call.issued) = Len(call.got) + (IF call.waiting THEN 1 ELSE 0)
        /\ (call.next = Returning \/ call.pc = "returned") =>
              Len(call.issued) = Len(OrderOps)
        /\ \A i \in 1..Len(call.issued) :
              (call.issued[i].op \in {"flashcards", "mcqs"} /\ call.got[1].error)
                  => call.issued[i].notes_content = ""

\* it has returned after an error reply to notes
C36_Witness ==
    /\ call.pc = "returned"
    /\ call.got[1].error
    /\ Len(call.issued) = 4

====
